---- MODULE Spec2Model ----
(***************************************************************************)
(* A model of the BabySteps journal: the Local Record Store over           *)
(* IndexedDB (storageService), its one-time migration from localStorage,   *)
(* the Access Gate (Google sign-in + allow-list) and the save flow with    *)
(* its best-effort sync to Drive and Sheets.                               *)
(***************************************************************************)
EXTENDS Integers, Sequences, FiniteSets, TLC

(***************************************************************************)
(* Bounds of the model.                                                    *)
(***************************************************************************)
MaxId == 3
MaxLegacy == 2
MaxRuns == 2
MaxRows == 2
MaxLoads == 2
MaxImages == 2
MaxSaves == 1
MaxFiles == 3

\* waitForScripts gives up after this many retries (attempts < 20).
MaxAttempts == 20

(***************************************************************************)
(* Values.                                                                 *)
(***************************************************************************)
\* Record identifiers (crypto.randomUUID() strings, ordered as IndexedDB keys).
Ids == 1..MaxId

\* Capture dates as the date input writes them, "YYYY-MM-DD": <<year, month, day>>.
Dates == {<<2023, 12, 31>>, <<2024, 1, 15>>, <<2024, 3, 1>>}

Notes == {"", "first steps"}

NoItem == "null"

\* What localStorage.getItem returns: null (no item) or a string, which is
\* either JSON text (of the value it parses to) or text that is no JSON.
\* A JSON value is an array of items or an object.
JsonArray(items) == [kind |-> "array", items |-> items]
JsonObject == [kind |-> "object", items |-> <<>>]
NullItem == [text |-> "null", value |-> JsonObject]
EmptyText == [text |-> "empty", value |-> JsonObject]
BrokenText == [text |-> "broken", value |-> JsonObject]
JsonText(v) == [text |-> "json", value |-> v]

\* if (lsData): null and the empty string are falsy.
Truthy(item) == item.text \notin {"null", "empty"}

\* JSON.parse(text): the parsed value, or a SyntaxError.
JSONParse(item) ==
    IF item.text = "json" THEN [ok |-> TRUE, value |-> item.value]
    ELSE [ok |-> FALSE, value |-> JsonObject]

\* Array.isArray(v)
IsArray(v) == v.kind = "array"

LeapYear(y) == (y % 4 = 0 /\ y % 100 # 0) \/ y % 400 = 0

DaysBeforeMonth(y, m) ==
    LET len == <<31, IF LeapYear(y) THEN 29 ELSE 28, 31, 30, 31, 30, 31, 31, 30, 31, 30, 31>>
        sum[k \in 0..12] == IF k = 0 THEN 0 ELSE sum[k - 1] + len[k]
    IN sum[m - 1]

DaysBeforeYear(y) ==
    LET p == y - 1
    IN 365 * (y - 1970) + ((p \div 4) - (p \div 100) + (p \div 400))
                        - ((1969 \div 4) - (1969 \div 100) + (1969 \div 400))

\* new Date(date).getTime() for a date-only string: the time of that day's UTC
\* midnight. The value is kept in days; the millisecond value is this number
\* times 86 400 000, which a double holds exactly, so sign and order of
\* differences are those of the code.
GetTime(date) ==
    DaysBeforeYear(date[1]) + DaysBeforeMonth(date[1], date[2]) + (date[3] - 1)

(***************************************************************************)
(* The object store 'memories' (keyPath 'id'): a map from key to record.   *)
(***************************************************************************)
Moods == {"Neutral", "Happy"}

\* The birthday of the profile the records of the model were saved under.
Birthday == <<2023, 6, 1>>

\* calculateAge(birthday, date): the age at the capture date, in whole months.
CalculateAge(birthday, date) ==
    (date[1] - birthday[1]) * 12 + (date[2] - birthday[2])
        - (IF date[3] < birthday[3] THEN 1 ELSE 0)

\* A Memory as handleSaveMemory builds it (createdAt, which nothing reads, is
\* left out).
Memory(id, date, images, note, mood) ==
    [id |-> id, date |-> date, images |-> images, note |-> note, mood |-> mood,
     calculatedAge |-> CalculateAge(Birthday, date)]

EmptyStore == [k \in {} |-> NoItem]

\* An entry can be stored only if the key path 'id' yields a key.
HasKey(entry) == "id" \in DOMAIN entry

\* A put that keeps the record already stored under the key (add-if-absent).
IDBPutKeepExisting(store, memory) ==
    [k \in DOMAIN store \cup {memory.id} |-> IF k \in DOMAIN store THEN store[k] ELSE memory]

\* store.put(memory): create or replace the record stored under memory.id.
IDBPut(store, memory) ==
    [k \in DOMAIN store \cup {memory.id} |-> IF k = memory.id THEN memory ELSE store[k]]

\* A delete that clears the whole store.
IDBDeleteAll(store, id) == EmptyStore

\* store.delete(id): remove the record under id; a missing key is no error.
IDBDelete(store, id) == [k \in DOMAIN store \ {id} |-> store[k]]

\* store.getAll(): every record, in ascending key order.
IDBGetAll(store) ==
    LET list[n \in 0..MaxId] ==
            IF n = 0 THEN <<>>
            ELSE IF n \in DOMAIN store THEN Append(list[n - 1], store[n]) ELSE list[n - 1]
    IN list[MaxId]

\* A comparator that orders oldest first.
CompareOldestFirst(a, b) == GetTime(a.date) - GetTime(b.date)

\* The comparator of the sort: (a, b) => getTime(b.date) - getTime(a.date).
CompareNewestFirst(a, b) == GetTime(b.date) - GetTime(a.date)

\* Array.prototype.sort with the comparator is stable: an element is placed
\* after the last element that does not compare greater than it.
InsertSorted(sorted, x) ==
    LET keep == {i \in 1..Len(sorted) : CompareNewestFirst(sorted[i], x) <= 0}
        n == IF keep = {} THEN 0 ELSE CHOOSE i \in keep : \A j \in keep : j <= i
    IN SubSeq(sorted, 1, n) \o <<x>> \o SubSeq(sorted, n + 1, Len(sorted))

SortByDate(list) ==
    LET acc[n \in 0..Len(list)] == IF n = 0 THEN <<>> ELSE InsertSorted(acc[n - 1], list[n])
    IN acc[Len(list)]

(***************************************************************************)
(* Strings of the allow-list check, as sequences of characters.            *)
(***************************************************************************)
\* String.prototype.trim(): drop the white space at both ends.
Trim(str) ==
    LET solid == {i \in 1..Len(str) : str[i] # " "}
    IN IF solid = {} THEN <<>>
       ELSE SubSeq(str, CHOOSE i \in solid : \A j \in solid : i <= j,
                        CHOOSE i \in solid : \A j \in solid : j <= i)

\* String.prototype.toLowerCase()
ToLowerCase(str) ==
    [i \in 1..Len(str) |-> IF str[i] = "A" THEN "a" ELSE IF str[i] = "B" THEN "b" ELSE str[i]]

\* The email of the signed-in account as userinfo returns it; undefined when
\* the response carries no email.
Email(str) == [defined |-> TRUE, str |-> str]
UndefinedEmail == [defined |-> FALSE, str |-> <<>>]
Emails == {Email(<<"A">>), Email(<<"b">>), UndefinedEmail}

\* Cells of column A of the 'Login' tab.
Cells == {<<" ", "a", " ">>, <<"B">>}

\* A row of the range Login!A:A that holds a cell; an empty row has none.
Rows == {<<c>> : c \in Cells}

\* response.result.values: undefined when the range holds nothing, else rows;
\* or the request fails (the tab does not exist, the sheet cannot be read).
NoValues == [ok |-> TRUE, defined |-> FALSE, values |-> <<>>]
Values(rows) == [ok |-> TRUE, defined |-> TRUE, values |-> rows]
ReadError == [ok |-> FALSE, defined |-> FALSE, values |-> <<>>]
SheetReads ==
    {NoValues, ReadError, Values(<<>>), Values(<< <<>> >>)}
        \cup {Values(rows) : rows \in UNION {[1..n -> Rows] : n \in 1..MaxRows}}

\* rows.flat()
Flat(rows) ==
    LET acc[n \in 0..Len(rows)] == IF n = 0 THEN <<>> ELSE acc[n - 1] \o rows[n]
    IN acc[Len(rows)]

\* An allow-list check that lets everybody in when the list is empty.
ValidateUserAccessOpen(userEmail, read) ==
    IF ~read.ok THEN "error"
    ELSE IF ~read.defined \/ Len(read.values) = 0 THEN "true"
    ELSE IF ~userEmail.defined THEN "error"
    ELSE LET allowedEmails == [i \in 1..Len(Flat(read.values)) |->
                                    ToLowerCase(Trim(Flat(read.values)[i]))]
         IN IF \E i \in 1..Len(allowedEmails) : allowedEmails[i] = ToLowerCase(Trim(userEmail.str))
            THEN "true" ELSE "false"

\* validateUserAccess(userEmail), given what the read of Login!A:A returned:
\* "true", "false", or "error" for the Error thrown from the catch block (a
\* failed read, or trim() of an undefined email).
ValidateUserAccess(userEmail, read) ==
    IF ~read.ok THEN "error"
    ELSE IF ~read.defined \/ Len(read.values) = 0 THEN "false"
    ELSE IF ~userEmail.defined THEN "error"
    ELSE LET allowedEmails == [i \in 1..Len(Flat(read.values)) |->
                                    ToLowerCase(Trim(Flat(read.values)[i]))]
         IN IF \E i \in 1..Len(allowedEmails) : allowedEmails[i] = ToLowerCase(Trim(userEmail.str))
            THEN "true" ELSE "false"

(***************************************************************************)
(* RemoteConfig: four strings, kept by their lengths.                      *)
(***************************************************************************)
GoogleConfig(clientId, apiKey, spreadsheetId, driveFolderId) ==
    [clientId |-> clientId, apiKey |-> apiKey, spreadsheetId |-> spreadsheetId,
     driveFolderId |-> driveFolderId]

BlankConfig == GoogleConfig(0, 0, 0, 0)
FullConfig == GoogleConfig(11, 11, 6, 0)

Configs == {BlankConfig, FullConfig}

\* A check that leaves the spreadsheet id out.
IsGoogleConfiguredWithoutSheet(c) == c.clientId > 10 /\ c.apiKey > 10

\* isGoogleConfigured() of a configuration.
IsGoogleConfigured(c) == c.clientId > 10 /\ c.apiKey > 10 /\ c.spreadsheetId > 5

NoProfile == [set |-> FALSE, birthday |-> <<1970, 1, 1>>]
Profiles == {[set |-> TRUE, birthday |-> Birthday]}

NoToken == "null"
NoUser == UndefinedEmail

(***************************************************************************)
(* State.                                                                  *)
(***************************************************************************)
VARIABLES
    db,         \* the object store 'memories' of BabyStepsDB
    dbRet,      \* how the last storage-service call settled, and the store before it
    ls,         \* localStorage: the value under the legacy key 'baby_memories'
    mig,        \* migrateFromLocalStorage: where the call of this startup stands
    txn,        \* the migration's readwrite transaction: its state and queued puts
    migSnap,    \* the store and the legacy value when this startup's migration began
    runs,       \* startups so far
    isLoadingData,  \* App: isLoadingData
    config,         \* googleCloudService: currentConfig
    tokenClient,    \* googleCloudService: tokenClient
    gapiInited,     \* googleCloudService: gapiInited
    gisInited,      \* googleCloudService: gisInited
    loads,          \* loadGoogleApi calls that have not finished
    scripts,        \* whether window.gapi and window.google are there
    gapiToken,      \* the token gapi.client holds (getToken / setToken)
    isGoogleReady,  \* App state
    isAuthorized,   \* App state: controls access to the main app
    currentUser,    \* App state
    isCheckingAuth, \* App state
    isSettingsOpen, \* App state
    profile,        \* App state and localStorage 'baby_profile'
    lastAlert,      \* the last alert() shown
    si,             \* handleGoogleSignIn: where the pending call stands
    lastValidate,   \* the last validateUserAccess call: its email, what it read, its result
    memories,       \* App state: the records shown
    isModalOpen,    \* App state: the add/edit modal
    form,           \* App state of the form: editingId, selectedFiles, photoDate, note, selectedMood
    isSaving,       \* App state
    save,           \* handleSaveMemory: where the pending call stands and what it captured
    calls,          \* the remote calls of the last save: each call and how it returned
    saves,          \* clicks on the save button so far
    picks,          \* handleFileSelect: the pending calls, each with its loop state
    net,            \* googleCloudService: the upload or append in flight, the requests it sent, how it settled
    deletes         \* handleDeleteMemory: the ids whose deleteMemoryFromDB is pending

storeVars == <<db, dbRet>>

migVars == <<ls, mig, txn, migSnap, runs, isLoadingData>>

apiVars == <<config, tokenClient, gapiInited, gisInited, loads, scripts, isGoogleReady>>

gateVars == <<gapiToken, isAuthorized, currentUser, isCheckingAuth, isSettingsOpen,
              profile, lastAlert, si, lastValidate>>

\* Everything outside the storage service and the migration.
saveVars == <<memories, isModalOpen, form, isSaving, save, calls, saves, picks, net, deletes>>

appVars == <<apiVars, gateVars, saveVars>>

vars == <<storeVars, migVars, appVars>>

\* Outcomes of the environment: indexedDB.open and a request on the store.
Outcomes == {"ok", "error"}

NoCall == [op |-> "none", arg |-> NoItem, outcome |-> "none", value |-> NoItem, before |-> EmptyStore]

Settled(op, arg, outcome, value, before) ==
    [op |-> op, arg |-> arg, outcome |-> outcome, value |-> value, before |-> before]

(***************************************************************************)
(* storageService: each call opens the database, runs one request in its  *)
(* own transaction and settles with the request.                           *)
(***************************************************************************)
\* A save whose failed request has written the record all the same.
SaveMemoryToDBOnWritesAnyway(store, memory, open, req) ==
    IF open = "error" THEN [db |-> store, outcome |-> "rejected", value |-> "IndexedDB error"]
    ELSE IF ~HasKey(memory) THEN [db |-> store, outcome |-> "rejected", value |-> "DataError"]
    ELSE IF req = "error"
    THEN [db |-> IDBPut(store, memory), outcome |-> "rejected", value |-> "request.error"]
    ELSE [db |-> IDBPut(store, memory), outcome |-> "resolved", value |-> NoItem]

\* saveMemoryToDB(memory) on a store: the store it leaves and how it settles.
SaveMemoryToDBOn(store, memory, open, req) ==
    IF open = "error" THEN [db |-> store, outcome |-> "rejected", value |-> "IndexedDB error"]
    ELSE IF ~HasKey(memory) THEN [db |-> store, outcome |-> "rejected", value |-> "DataError"]
    ELSE IF req = "error" THEN [db |-> store, outcome |-> "rejected", value |-> "request.error"]
    ELSE [db |-> IDBPut(store, memory), outcome |-> "resolved", value |-> NoItem]

\* deleteMemoryFromDB(id) on a store.
DeleteMemoryFromDBOn(store, id, open, req) ==
    IF open = "error" THEN [db |-> store, outcome |-> "rejected", value |-> "IndexedDB error"]
    ELSE IF req = "error" THEN [db |-> store, outcome |-> "rejected", value |-> "request.error"]
    ELSE [db |-> IDBDelete(store, id), outcome |-> "resolved", value |-> NoItem]

\* getAllMemoriesFromDB() on a store: resolves with the records sorted by date.
GetAllMemoriesFromDBOn(store, open, req) ==
    IF open = "error" THEN [db |-> store, outcome |-> "rejected", value |-> "IndexedDB error"]
    ELSE IF req = "error" THEN [db |-> store, outcome |-> "rejected", value |-> "request.error"]
    ELSE [db |-> store, outcome |-> "resolved", value |-> SortByDate(IDBGetAll(store))]

\* The records the store-level calls are made with.
StoreRecords ==
    {Memory(id, d, <<1>>, "", "Neutral") : id \in Ids, d \in Dates}
        \cup {Memory(id, <<2024, 1, 15>>, <<1>>, n, "Neutral") : id \in Ids, n \in Notes}

SaveMemoryToDB(memory) ==
    \E open \in Outcomes, req \in Outcomes :
        LET r == SaveMemoryToDBOn(db, memory, open, req)
        IN /\ db' = r.db
           /\ dbRet' = Settled("put", memory, r.outcome, r.value, db)
           /\ UNCHANGED <<migVars, appVars>>

DeleteMemoryFromDB(id) ==
    \E open \in Outcomes, req \in Outcomes :
        LET r == DeleteMemoryFromDBOn(db, id, open, req)
        IN /\ db' = r.db
           /\ dbRet' = Settled("delete", id, r.outcome, r.value, db)
           /\ UNCHANGED <<migVars, appVars>>

GetAllMemoriesFromDB ==
    \E open \in Outcomes, req \in Outcomes :
        LET r == GetAllMemoriesFromDBOn(db, open, req)
        IN /\ db' = r.db
           /\ dbRet' = Settled("getAll", NoItem, r.outcome, r.value, db)
           /\ UNCHANGED <<migVars, appVars>>

\* A loadGoogleApi call in progress: waiting for its next poll or for the
\* callback of gapi.load, with the onLoad it was given and whether the call
\* has invoked it so far.
Load(stage, attempts, onLoad) ==
    [stage |-> stage, attempts |-> attempts, onLoad |-> onLoad, called |-> FALSE]

SignInIdle == [pc |-> "idle", handshake |-> FALSE, email |-> UndefinedEmail]

NoValidate == [email |-> UndefinedEmail, read |-> ReadError, result |-> "none"]

\* editingId === null
NoId == 0

\* new Date().toISOString().split('T')[0]: the day the app runs on.
Today == <<2024, 3, 1>>

\* The form as closeModal and openAddModal leave it.
EmptyForm == [editingId |-> NoId, selectedFiles |-> <<>>, photoDate |-> Today,
              note |-> "", selectedMood |-> "Neutral"]

\* handleSaveMemory when no call is pending and none has been made.
SaveIdle == [pc |-> "idle", i |-> 0, files |-> <<>>,
             rec |-> Memory(NoId, Today, <<>>, "", "Neutral"),
             editing |-> FALSE, isAuthorized |-> FALSE, configured |-> FALSE,
             result |-> "none"]

\* How a call of the service settles: it resolves with a text (the url of an
\* upload, nothing for an append), or rejects with the Error its catch block
\* built (the prefix, then the message, which for a response that is not ok
\* holds its status and its text).
Settlement(outcome, prefix, message, status, text) ==
    [outcome |-> outcome, prefix |-> prefix, message |-> message,
     status |-> status, text |-> text]

NotSettled == Settlement("none", "", "", 0, "")

\* googleCloudService with no upload and no append in flight and none made.
NetIdle == [pc |-> "idle", sent |-> <<>>, result |-> NotSettled]

InitSaveIdle ==
    /\ memories = <<>>
    /\ isModalOpen = FALSE
    /\ form = EmptyForm
    /\ isSaving = FALSE
    /\ save = SaveIdle
    /\ calls = <<>>
    /\ saves = 0
    /\ picks = <<>>
    /\ net = NetIdle
    /\ deletes = <<>>

\* The App component and googleCloudService as they are before the mount
\* effect has run: nothing loaded, nobody signed in.
InitAppIdle ==
    /\ config = FullConfig
    /\ tokenClient = "undefined"
    /\ gapiInited = FALSE
    /\ gisInited = FALSE
    /\ loads = <<>>
    /\ scripts = FALSE
    /\ gapiToken = NoToken
    /\ isGoogleReady = FALSE
    /\ isAuthorized = FALSE
    /\ currentUser = NoUser
    /\ isCheckingAuth = FALSE
    /\ isSettingsOpen = FALSE
    /\ profile = NoProfile
    /\ lastAlert = "none"
    /\ si = SignInIdle
    /\ lastValidate = NoValidate
    /\ InitSaveIdle

\* The storage side before anything is stored or migrated.
InitStorageIdle ==
    /\ db = EmptyStore
    /\ dbRet = NoCall
    /\ ls = NullItem
    /\ mig = [pc |-> "notStarted", result |-> "none"]
    /\ txn = [state |-> "none", writes |-> <<>>]
    /\ migSnap = [db |-> EmptyStore, ls |-> NullItem]
    /\ runs = 1
    /\ isLoadingData = TRUE

InitStore == InitStorageIdle /\ InitAppIdle

NextStore ==
    \/ \E memory \in StoreRecords : SaveMemoryToDB(memory)
    \/ \E id \in Ids : DeleteMemoryFromDB(id)
    \/ GetAllMemoriesFromDB

\* The storage service called in any order with any records.
SpecStore == InitStore /\ [][NextStore]_vars

\* C1: after saveMemoryToDB(R) resolves, whatever the store held before, the
\* list getAllMemoriesFromDB() produces has exactly one entry with R's id and
\* that entry is R; putting R again leaves the store as it is; the records
\* under other ids are the ones the store held before.
C1_PutThenGetAll ==
    (dbRet.op = "put" /\ dbRet.outcome = "resolved") =>
        LET R == dbRet.arg
            all == GetAllMemoriesFromDBOn(db, "ok", "ok").value
        IN /\ Cardinality({i \in 1..Len(all) : all[i].id = R.id}) = 1
           /\ \E i \in 1..Len(all) : all[i] = R
           /\ SaveMemoryToDBOn(db, R, "ok", "ok").db = db
           /\ \A k \in Ids \ {R.id} :
                /\ k \in DOMAIN db <=> k \in DOMAIN dbRet.before
                /\ k \in DOMAIN db => db[k] = dbRet.before[k]

\* C1 witness: a put replaced a different record stored under the same id
\* while another id was stored too.
C1_Witness ==
    /\ dbRet.op = "put" /\ dbRet.outcome = "resolved"
    /\ dbRet.arg.id \in DOMAIN dbRet.before
    /\ dbRet.before[dbRet.arg.id] # dbRet.arg
    /\ Cardinality(DOMAIN db) >= 2

\* C2: deleteMemoryFromDB(id) for an id the store does not hold leaves the
\* store as it was, and the missing id is no error: the call resolves whenever
\* the database opened and the engine served the request.
C2_DeleteMissing ==
    (dbRet.op = "delete" /\ dbRet.arg \notin DOMAIN dbRet.before) =>
        /\ db = dbRet.before
        /\ dbRet.outcome = "rejected" => dbRet.value \in {"IndexedDB error", "request.error"}
        /\ DeleteMemoryFromDBOn(dbRet.before, dbRet.arg, "ok", "ok").outcome = "resolved"
        /\ DeleteMemoryFromDBOn(dbRet.before, dbRet.arg, "ok", "ok").db = dbRet.before

\* C2 witness: a delete of a missing id resolved on a store that holds records.
C2_Witness ==
    /\ dbRet.op = "delete" /\ dbRet.outcome = "resolved"
    /\ dbRet.arg \notin DOMAIN dbRet.before
    /\ dbRet.before # EmptyStore

DistinctDates(store) ==
    \A j, k \in DOMAIN store : j # k => store[j].date # store[k].date

\* C3: when the stored records have distinct capture dates, the list that
\* getAllMemoriesFromDB() resolves with holds every stored record exactly
\* once, newest capture date first, strictly descending.
C3_GetAllSorted ==
    (dbRet.op = "getAll" /\ dbRet.outcome = "resolved" /\ DistinctDates(db)) =>
        LET all == dbRet.value
        IN /\ Len(all) = Cardinality(DOMAIN db)
           /\ \A k \in DOMAIN db : Cardinality({i \in 1..Len(all) : all[i] = db[k]}) = 1
           /\ \A i \in 1..Len(all) - 1 : GetTime(all[i].date) > GetTime(all[i + 1].date)
           /\ \A i \in 1..Len(all) - 1 :
                \/ all[i].date[1] > all[i + 1].date[1]
                \/ /\ all[i].date[1] = all[i + 1].date[1]
                   /\ \/ all[i].date[2] > all[i + 1].date[2]
                      \/ all[i].date[2] = all[i + 1].date[2] /\ all[i].date[3] > all[i + 1].date[3]

\* C3 witness: getAll resolved with three records whose key order is not
\* their date order.
C3_Witness ==
    /\ dbRet.op = "getAll" /\ dbRet.outcome = "resolved" /\ DistinctDates(db)
    /\ Len(dbRet.value) >= 3
    /\ dbRet.value # IDBGetAll(db)

(***************************************************************************)
(* migrateFromLocalStorage: the legacy list under 'baby_memories' is put   *)
(* into the store in one transaction; the key is removed afterwards.       *)
(***************************************************************************)
LegacyDates == {<<2023, 12, 31>>, <<2024, 1, 15>>}

\* Entries of a legacy list: records of the old system, and an entry that has
\* no id (store.put throws DataError for it).
LegacyRecords == {Memory(id, d, <<1>>, "", "Neutral") : id \in Ids, d \in LegacyDates}
KeylessEntry == [date |-> <<2024, 1, 15>>, note |-> ""]
LegacyEntries == LegacyRecords \cup {KeylessEntry}

\* Lists the old system can have written: records have pairwise distinct ids.
LegacyLists ==
    {l \in UNION {[1..n -> LegacyEntries] : n \in 1..MaxLegacy} :
        \A i, j \in 1..Len(l) : (i # j /\ HasKey(l[i]) /\ HasKey(l[j])) => l[i].id # l[j].id}

LegacyValues ==
    {NullItem, EmptyText, BrokenText, JsonText(JsonObject), JsonText(JsonArray(<<>>))}
        \cup {JsonText(JsonArray(l)) : l \in LegacyLists}

\* The puts the loop queues before store.put throws: all of them when every
\* entry has a key.
QueuedPuts(legacy) ==
    LET bad == {i \in 1..Len(legacy) : ~HasKey(legacy[i])}
        stop == IF bad = {} THEN Len(legacy) + 1 ELSE CHOOSE i \in bad : \A j \in bad : i <= j
    IN SubSeq(legacy, 1, stop - 1)

\* The store after a transaction's queued puts are committed, in order.
ApplyPuts(store, writes) ==
    LET acc[n \in 0..Len(writes)] == IF n = 0 THEN store ELSE IDBPut(acc[n - 1], writes[n])
    IN acc[Len(writes)]

MigDone(result) == [pc |-> "done", result |-> result]

\* A start that initialises the legacy key to an empty list when it is absent.
MigrateStartInitialisesKey ==
    /\ mig.pc = "notStarted"
    /\ migSnap' = [db |-> db, ls |-> ls]
    /\ ls' = IF ls = NullItem THEN JsonText(JsonArray(<<>>)) ELSE ls
    /\ mig' = IF ~Truthy(ls) THEN MigDone("skipped")
              ELSE IF ~JSONParse(ls).ok THEN MigDone("failed")
              ELSE IF IsArray(JSONParse(ls).value) /\ Len(JSONParse(ls).value.items) > 0
                   THEN [pc |-> "opening", result |-> "none"]
                   ELSE MigDone("skipped")
    /\ UNCHANGED <<txn, runs, isLoadingData, storeVars, appVars>>

\* Lines 70-74: read the key, parse it, and decide whether there is a list to
\* migrate. A parse error is caught and logged.
MigrateStart ==
    /\ mig.pc = "notStarted"
    /\ migSnap' = [db |-> db, ls |-> ls]
    /\ mig' = IF ~Truthy(ls) THEN MigDone("skipped")
              ELSE IF ~JSONParse(ls).ok THEN MigDone("failed")
              ELSE IF IsArray(JSONParse(ls).value) /\ Len(JSONParse(ls).value.items) > 0
                   THEN [pc |-> "opening", result |-> "none"]
                   ELSE MigDone("skipped")
    /\ UNCHANGED <<ls, txn, runs, isLoadingData, storeVars, appVars>>

\* A migration that removes the legacy key as soon as the puts are queued.
MigrateOpenDBRemovesKey ==
    /\ mig.pc = "opening"
    /\ \E open \in Outcomes :
        LET legacy == JSONParse(ls).value.items
            queued == QueuedPuts(legacy)
        IN IF open = "error"
           THEN mig' = MigDone("failed") /\ txn' = txn /\ ls' = ls
           ELSE /\ txn' = [state |-> "pending", writes |-> queued]
                /\ ls' = NullItem
                /\ mig' = IF Len(queued) = Len(legacy)
                          THEN [pc |-> "awaitTxn", result |-> "none"]
                          ELSE MigDone("failed")
    /\ UNCHANGED <<migSnap, runs, isLoadingData, storeVars, appVars>>

\* Lines 76-88: the database opens (or not), the transaction is created and
\* the loop queues one put per entry; a put that throws ends the call in the
\* catch block and leaves the transaction with the puts queued so far.
MigrateOpenDB ==
    /\ mig.pc = "opening"
    /\ \E open \in Outcomes :
        LET legacy == JSONParse(ls).value.items
            queued == QueuedPuts(legacy)
        IN IF open = "error"
           THEN mig' = MigDone("failed") /\ txn' = txn
           ELSE /\ txn' = [state |-> "pending", writes |-> queued]
                /\ mig' = IF Len(queued) = Len(legacy)
                          THEN [pc |-> "awaitTxn", result |-> "none"]
                          ELSE MigDone("failed")
    /\ UNCHANGED <<ls, migSnap, runs, isLoadingData, storeVars, appVars>>

\* The engine commits the transaction: its puts reach the store.
TxnCommit ==
    /\ txn.state = "pending"
    /\ db' = ApplyPuts(db, txn.writes)
    /\ txn' = [txn EXCEPT !.state = "committed"]
    /\ UNCHANGED <<dbRet, ls, mig, migSnap, runs, isLoadingData, appVars>>

\* Lines 86, 91-92: transaction.oncomplete resolves the awaited promise and the
\* legacy key is removed.
MigrateOnComplete ==
    /\ mig.pc = "awaitTxn"
    /\ txn.state = "committed"
    /\ ls' = NullItem
    /\ mig' = MigDone("migrated")
    /\ txn' = [txn EXCEPT !.state = "completed"]
    /\ UNCHANGED <<migSnap, runs, isLoadingData, storeVars, appVars>>

\* Line 87: a request of the transaction fails; the error event reaches
\* transaction.onerror, the awaited promise rejects into the catch block, and
\* the engine aborts the transaction.
TxnRequestError ==
    /\ txn.state = "pending"
    /\ Len(txn.writes) > 0
    /\ txn' = [txn EXCEPT !.state = "aborted"]
    /\ mig' = IF mig.pc = "awaitTxn" THEN MigDone("failed") ELSE mig
    /\ UNCHANGED <<ls, migSnap, runs, isLoadingData, storeVars, appVars>>

\* The transaction aborts without an error event (the commit fails): neither
\* handler of lines 86-87 runs.
TxnAbort ==
    /\ txn.state = "pending"
    /\ txn' = [txn EXCEPT !.state = "aborted"]
    /\ UNCHANGED <<ls, mig, migSnap, runs, isLoadingData, storeVars, appVars>>

\* The page is loaded again (the next startup), once the engine has settled a
\* pending transaction.
Reload ==
    /\ runs < MaxRuns
    /\ txn.state # "pending"
    /\ mig.pc # "notStarted"
    /\ runs' = runs + 1
    /\ isLoadingData' = TRUE
    /\ mig' = [pc |-> "notStarted", result |-> "none"]
    /\ txn' = [state |-> "none", writes |-> <<>>]
    /\ UNCHANGED <<ls, migSnap, storeVars, appVars>>

InitMigrate ==
    /\ db = EmptyStore
    /\ dbRet = NoCall
    /\ ls \in LegacyValues
    /\ mig = [pc |-> "notStarted", result |-> "none"]
    /\ txn = [state |-> "none", writes |-> <<>>]
    /\ migSnap = [db |-> EmptyStore, ls |-> NullItem]
    /\ runs = 1
    /\ isLoadingData = TRUE
    /\ InitAppIdle

NextMigrate ==
    \/ MigrateStart
    \/ MigrateOpenDB
    \/ TxnCommit
    \/ MigrateOnComplete
    \/ TxnRequestError
    \/ TxnAbort
    \/ Reload

\* Startups of an installation whose localStorage holds any legacy value.
SpecMigrate == InitMigrate /\ [][NextMigrate]_vars

(***************************************************************************)
(* initData: the mount effect of App around the migration.                 *)
(***************************************************************************)
\* App lines 70-81: JSON.parse of the saved profile or of the saved
\* configuration throws; the catch block logs, the finally block ends the
\* loading, and migrateFromLocalStorage is never called.
InitDataParseThrows ==
    /\ isLoadingData /\ mig.pc = "notStarted"
    /\ mig' = [pc |-> "notCalled", result |-> "none"]
    /\ isLoadingData' = FALSE
    /\ UNCHANGED <<ls, txn, migSnap, runs, storeVars, appVars>>

\* App lines 83-94: migrateFromLocalStorage has returned (it catches its own
\* errors) and getAllMemoriesFromDB, whose transaction starts behind the
\* migration's, settles. Resolved, its value becomes the list; rejected, the
\* catch block logs. The finally block ends the loading. (dbRet keeps the
\* calls made on the storage service itself, not this one.)
InitDataLoads ==
    /\ isLoadingData /\ mig.pc = "done" /\ txn.state # "pending"
    /\ \E open \in Outcomes, req \in Outcomes :
        LET r == GetAllMemoriesFromDBOn(db, open, req)
        IN /\ db' = r.db
           /\ memories' = IF r.outcome = "resolved" THEN r.value ELSE memories
    /\ isLoadingData' = FALSE
    /\ mig' = [mig EXCEPT !.pc = "loaded"]
    /\ UNCHANGED <<dbRet, ls, txn, migSnap, runs, isModalOpen, form, isSaving, save,
                   calls, saves, picks, net, deletes, apiVars, gateVars>>

NextInitData ==
    \/ InitDataParseThrows
    \/ MigrateStart
    \/ MigrateOpenDB
    \/ TxnCommit
    \/ MigrateOnComplete
    \/ TxnRequestError
    \/ TxnAbort
    \/ InitDataLoads

\* What every step of a startup changes: the position of the migration or of
\* initData, or the state of the transaction.
initVars == <<mig, txn, isLoadingData>>

\* The steps of a startup before the list is loaded.
MigrationSteps ==
    \/ InitDataParseThrows
    \/ MigrateStart
    \/ MigrateOpenDB
    \/ TxnCommit
    \/ MigrateOnComplete
    \/ TxnRequestError
    \/ TxnAbort

\* A step of InitDataLoads as initVars show it: the only step that takes mig
\* to "loaded".
InitDataLoadsStep ==
    /\ isLoadingData /\ mig.pc = "done" /\ txn.state # "pending"
    /\ mig' = [mig EXCEPT !.pc = "loaded"]
    /\ txn' = txn
    /\ isLoadingData' = FALSE

\* One startup. Every step is a piece of synchronous code, the settling of a
\* request or an event of the transaction, none of which is withheld for ever.
SpecInitData ==
    /\ InitMigrate /\ [][NextInitData]_vars
    /\ WF_initVars(MigrationSteps) /\ WF_initVars(InitDataLoadsStep)

(***************************************************************************)
(* googleCloudService: loadGoogleApi and the module state it initialises.  *)
(***************************************************************************)
Api == [gapiInited |-> gapiInited, gisInited |-> gisInited,
        tokenClient |-> tokenClient, ready |-> isGoogleReady]

SetApi(a) ==
    /\ gapiInited' = a.gapiInited
    /\ gisInited' = a.gisInited
    /\ tokenClient' = a.tokenClient
    /\ isGoogleReady' = a.ready

\* onLoad(): the App's callbacks set isGoogleReady, handleGoogleLogin's does
\* nothing.
OnLoad(a, load) == IF load.onLoad = "setReady" THEN TRUE ELSE a.ready

RemoveAt(seq, i) == SubSeq(seq, 1, i - 1) \o SubSeq(seq, i + 1, Len(seq))

\* One run of waitForScripts(attempts) of a load: the module state it leaves
\* and what of the load stays pending (the next poll, or the gapi.load
\* callback). gisOk: whether initTokenClient returns or throws.
WaitForScriptsOn(a, load, cfg, has, gisOk) ==
    IF ~has
    THEN IF load.attempts < MaxAttempts
         THEN [api |-> a, pending |-> <<Load("poll", load.attempts + 1, load.onLoad)>>]
         ELSE [api |-> [a EXCEPT !.ready = OnLoad(a, load)], pending |-> <<>>]
    ELSE IF ~IsGoogleConfigured(cfg)
    THEN [api |-> [a EXCEPT !.gapiInited = TRUE, !.gisInited = TRUE, !.ready = OnLoad(a, load)],
          pending |-> <<>>]
    ELSE LET callA == a.gapiInited /\ a.gisInited
             gisNew == ~a.gisInited /\ gisOk
             callB == ~a.gisInited /\ (IF gisOk THEN a.gapiInited ELSE TRUE)
         IN [api |-> [gapiInited |-> a.gapiInited,
                      gisInited |-> a.gisInited \/ gisNew,
                      tokenClient |-> IF gisNew THEN "client" ELSE a.tokenClient,
                      ready |-> IF callA \/ callB THEN OnLoad(a, load) ELSE a.ready],
             pending |-> IF ~a.gapiInited
                         THEN <<[Load("gapiInit", load.attempts, load.onLoad)
                                    EXCEPT !.called = callA \/ callB]>>
                         ELSE <<>>]

\* loadGoogleApi(onLoad): waitForScripts() runs at once, within the call.
LoadGoogleApiOn(a, onLoad, cfg, has, gisOk) ==
    WaitForScriptsOn(a, Load("poll", 0, onLoad), cfg, has, gisOk)

\* The two script tags finish loading.
ScriptsLoad ==
    /\ ~scripts
    /\ scripts' = TRUE
    /\ UNCHANGED <<config, tokenClient, gapiInited, gisInited, loads, isGoogleReady,
                   gateVars, storeVars, migVars, saveVars>>

\* Line 50: the timer of a pending poll fires.
WaitForScripts(i) ==
    /\ loads[i].stage = "poll"
    /\ \E gisOk \in BOOLEAN :
        LET r == WaitForScriptsOn(Api, loads[i], config, scripts, gisOk)
        IN /\ SetApi(r.api)
           /\ loads' = SubSeq(loads, 1, i - 1) \o r.pending \o SubSeq(loads, i + 1, Len(loads))
    /\ UNCHANGED <<config, scripts, gateVars, storeVars, migVars, saveVars>>

\* Lines 67-87: the callback of gapi.load: gapi.client.init and the two loads
\* succeed or throw.
GapiClientInit(i) ==
    /\ loads[i].stage = "gapiInit"
    /\ \E ok \in BOOLEAN :
        /\ gapiInited' = (IF ok THEN TRUE ELSE gapiInited)
        /\ isGoogleReady' = IF (ok /\ gisInited) \/ ~ok THEN OnLoad(Api, loads[i])
                            ELSE isGoogleReady
    /\ loads' = RemoveAt(loads, i)
    /\ UNCHANGED <<config, tokenClient, gisInited, scripts, gateVars, storeVars, migVars, saveVars>>

(***************************************************************************)
(* The Access Gate: handleGoogleSignIn, handleLogout, handleSaveSettings.  *)
(***************************************************************************)
\* Lines 145-150: the catch block alerts "Login Failed: " and the message of
\* the error, and the finally block ends the check.
SignInFailed(message) ==
    /\ lastAlert' = message
    /\ isCheckingAuth' = FALSE
    /\ si' = SignInIdle

\* Lines 110-120 and handleGoogleLogin up to requestAccessToken. The button is
\* on the login screen and disabled while !isGoogleReady || isCheckingAuth.
HandleGoogleSignIn ==
    /\ ~isAuthorized /\ isGoogleReady /\ ~isCheckingAuth
    /\ IF ~IsGoogleConfigured(config)
       THEN /\ isSettingsOpen' = TRUE
            /\ lastAlert' = "credentials missing"
            /\ UNCHANGED <<isCheckingAuth, si, apiVars>>
       ELSE IF tokenClient = "undefined"
       THEN /\ Len(loads) < MaxLoads
            /\ \E gisOk \in BOOLEAN :
                LET r == LoadGoogleApiOn(Api, "noop", config, scripts, gisOk)
                IN SetApi(r.api) /\ loads' = loads \o r.pending
            /\ SignInFailed("Login Failed: Google API library not ready")
            /\ UNCHANGED <<isSettingsOpen, config, scripts>>
       ELSE /\ isCheckingAuth' = TRUE
            /\ si' = [pc |-> "handshake", handshake |-> FALSE, email |-> UndefinedEmail]
            /\ UNCHANGED <<isSettingsOpen, lastAlert, apiVars>>
    /\ UNCHANGED <<gapiToken, isAuthorized, currentUser, profile, lastValidate,
                   storeVars, migVars, saveVars>>

\* A callback that goes on after an error response.
HandshakeReturnsIgnoringError ==
    /\ si.pc = "handshake"
    /\ \E ok \in BOOLEAN :
        /\ gapiToken' = (IF ok THEN "token" ELSE gapiToken)
        /\ si' = [si EXCEPT !.pc = "profile", !.handshake = ok]
        /\ UNCHANGED <<lastAlert, isCheckingAuth>>
    /\ UNCHANGED <<isAuthorized, currentUser, isSettingsOpen, profile, lastValidate,
                   apiVars, storeVars, migVars, saveVars>>

\* googleCloudService lines 165-172 and App line 123: the token client's callback runs with a token (which
\* the client library hands to gapi.client) or with an error; with a token,
\* getUserProfile starts its fetch.
HandshakeReturns ==
    /\ si.pc = "handshake"
    /\ \E ok \in BOOLEAN :
        IF ok
        THEN /\ gapiToken' = "token"
             /\ si' = [si EXCEPT !.pc = "profile", !.handshake = TRUE]
             /\ UNCHANGED <<lastAlert, isCheckingAuth>>
        ELSE SignInFailed("Login Failed: Google Login Failed") /\ UNCHANGED gapiToken
    /\ UNCHANGED <<isAuthorized, currentUser, isSettingsOpen, profile, lastValidate,
                   apiVars, storeVars, migVars, saveVars>>

\* Lines 116-128: the userinfo fetch fails, or returns a body whose email is
\* handed to validateUserAccess, which starts its read of Login!A:A.
ProfileReturns ==
    /\ si.pc = "profile"
    /\ \/ SignInFailed("Login Failed: profile")
       \/ \E email \in Emails :
            /\ si' = [si EXCEPT !.pc = "validate", !.email = email]
            /\ UNCHANGED <<lastAlert, isCheckingAuth>>
    /\ UNCHANGED <<gapiToken, isAuthorized, currentUser, isSettingsOpen, profile,
                   lastValidate, apiVars, storeVars, migVars, saveVars>>

\* Lines 128-150: validateUserAccess settles and the sign-in ends.
ValidateReturns ==
    /\ si.pc = "validate"
    /\ \E read \in SheetReads :
        LET hasAccess == ValidateUserAccess(si.email, read)
        IN /\ lastValidate' = [email |-> si.email, read |-> read, result |-> hasAccess]
           /\ CASE hasAccess = "true" ->
                    /\ currentUser' = si.email
                    /\ isAuthorized' = TRUE
                    /\ isSettingsOpen' = (IF ~profile.set THEN TRUE ELSE isSettingsOpen)
                    /\ UNCHANGED <<gapiToken, lastAlert>>
                [] hasAccess = "false" ->
                    /\ lastAlert' = "Access Denied"
                    /\ isAuthorized' = FALSE
                    /\ gapiToken' = NoToken
                    /\ UNCHANGED <<currentUser, isSettingsOpen>>
                [] OTHER ->
                    /\ lastAlert' = "Login Failed: Could not verify access"
                    /\ UNCHANGED <<gapiToken, isAuthorized, currentUser, isSettingsOpen>>
    /\ isCheckingAuth' = FALSE
    /\ si' = SignInIdle
    /\ UNCHANGED <<profile, apiVars, storeVars, migVars, saveVars>>

\* A sign-out that leaves the token with gapi.client.
HandleLogoutKeepsToken ==
    /\ isAuthorized
    /\ isAuthorized' = FALSE
    /\ currentUser' = NoUser
    /\ UNCHANGED <<gapiToken, isCheckingAuth, isSettingsOpen, profile, lastAlert, si,
                   lastValidate, apiVars, storeVars, migVars, saveVars>>

\* Lines 153-158. The button is in the header of the main app.
HandleLogout ==
    /\ isAuthorized
    /\ isAuthorized' = FALSE
    /\ currentUser' = NoUser
    /\ gapiToken' = NoToken
    /\ UNCHANGED <<isCheckingAuth, isSettingsOpen, profile, lastAlert, si, lastValidate,
                   apiVars, storeVars, migVars, saveVars>>

\* The settings buttons of both screens.
OpenSettings ==
    /\ ~isSettingsOpen
    /\ isSettingsOpen' = TRUE
    /\ UNCHANGED <<gapiToken, isAuthorized, currentUser, isCheckingAuth, profile,
                   lastAlert, si, lastValidate, apiVars, storeVars, migVars, saveVars>>

\* SettingsModal's onClose (App.tsx line 742).
CloseSettings ==
    /\ isSettingsOpen
    /\ isSettingsOpen' = FALSE
    /\ UNCHANGED <<gapiToken, isAuthorized, currentUser, isCheckingAuth, profile,
                   lastAlert, si, lastValidate, apiVars, storeVars, migVars, saveVars>>

\* Lines 160-175 and SettingsModal.handleSubmit: the profile and the
\* configuration are stored, the module state is reset and loadGoogleApi runs.
HandleSaveSettings(newProfile, newConfig) ==
    /\ isSettingsOpen
    /\ Len(loads) < MaxLoads
    /\ profile' = newProfile
    /\ config' = newConfig
    /\ \E gisOk \in BOOLEAN :
        LET reset == [gapiInited |-> FALSE, gisInited |-> FALSE,
                      tokenClient |-> "undefined", ready |-> FALSE]
            r == LoadGoogleApiOn(reset, "setReady", newConfig, scripts, gisOk)
        IN SetApi(r.api) /\ loads' = loads \o r.pending
    /\ isSettingsOpen' = FALSE
    /\ UNCHANGED <<scripts, gapiToken, isAuthorized, currentUser, isCheckingAuth,
                   lastAlert, si, lastValidate, storeVars, migVars, saveVars>>

\* After the mount effect, with the two scripts loaded already or not yet: the
\* configuration is the environment's or the saved one, the profile the saved
\* one, and loadGoogleApi has run its first waitForScripts.
MountedOn(has) ==
    /\ InitStorageIdle
    /\ scripts = has
    /\ \E gisOk \in BOOLEAN :
        LET fresh == [gapiInited |-> FALSE, gisInited |-> FALSE,
                      tokenClient |-> "undefined", ready |-> FALSE]
            r == LoadGoogleApiOn(fresh, "setReady", config, scripts, gisOk)
        IN /\ gapiInited = r.api.gapiInited
           /\ gisInited = r.api.gisInited
           /\ tokenClient = r.api.tokenClient
           /\ isGoogleReady = r.api.ready
           /\ loads = r.pending
    /\ gapiToken = NoToken
    /\ isAuthorized = FALSE
    /\ currentUser = NoUser
    /\ isCheckingAuth = FALSE
    /\ isSettingsOpen = FALSE
    /\ profile \in Profiles \cup {NoProfile}
    /\ lastAlert = "none"
    /\ si = SignInIdle
    /\ lastValidate = NoValidate
    /\ InitSaveIdle

Mounted == MountedOn(TRUE)

InitGate == config \in Configs /\ Mounted

NextGate ==
    \/ \E i \in 1..Len(loads) : GapiClientInit(i)
    \/ HandleGoogleSignIn
    \/ HandshakeReturns
    \/ ProfileReturns
    \/ ValidateReturns
    \/ HandleLogout
    \/ OpenSettings
    \/ CloseSettings
    \/ \E newProfile \in Profiles, newConfig \in Configs : HandleSaveSettings(newProfile, newConfig)

\* The login screen and the session: sign-in, sign-out and settings, with the
\* API loading beside them.
SpecGate == InitGate /\ [][NextGate]_vars

\* Configurations around the limits of isGoogleConfigured: each required
\* string empty, one character too short or just long enough, with and
\* without a folder id.
WideConfigs ==
    {GoogleConfig(c, a, sh, f) : c \in {0, 10, 11}, a \in {0, 10, 11}, sh \in {0, 5, 6},
                                 f \in {0, 33}}

InitSignIn == config \in WideConfigs /\ Mounted

NextSignIn ==
    \/ \E i \in 1..Len(loads) : GapiClientInit(i)
    \/ HandleGoogleSignIn
    \/ HandshakeReturns
    \/ ProfileReturns
    \/ ValidateReturns
    \/ HandleLogout
    \/ OpenSettings
    \/ CloseSettings

\* Sign-ins under a configuration that stays as it was loaded, whatever it is.
SpecSignIn == InitSignIn /\ [][NextSignIn]_vars

InitLoad == config \in Configs /\ MountedOn(FALSE)

NextLoad ==
    \/ ScriptsLoad
    \/ \E i \in 1..Len(loads) : WaitForScripts(i)
    \/ \E i \in 1..Len(loads) : GapiClientInit(i)
    \/ OpenSettings
    \/ CloseSettings
    \/ \E newProfile \in Profiles, newConfig \in Configs : HandleSaveSettings(newProfile, newConfig)

\* The loadGoogleApi calls of the login screen from the mount on, before and
\* after the two scripts have loaded, with the settings saved beside them.
SpecLoad == InitLoad /\ [][NextLoad]_vars

(***************************************************************************)
(* The compose form: openAddModal, openEditModal, closeModal,              *)
(* handleFileSelect.                                                       *)
(***************************************************************************)
\* MemoryImage ids (crypto.randomUUID()); an image is kept by its id.
Images == 1..MaxImages

\* Lines 225-232, as a change of the form state.
CloseModalOn == form' = EmptyForm /\ isModalOpen' = FALSE

\* Lines 234-241. The floating button is drawn in the main app while no modal
\* is open.
OpenAddModal ==
    /\ isAuthorized /\ ~isModalOpen
    /\ form' = EmptyForm
    /\ isModalOpen' = TRUE
    /\ UNCHANGED <<memories, isSaving, save, calls, saves, picks, net, apiVars, gateVars, storeVars, migVars, deletes>>

\* Lines 243-253: the edit button of a record shown in the main app.
OpenEditModal(memory) ==
    /\ isAuthorized
    /\ form' = [editingId |-> memory.id, selectedFiles |-> memory.images,
                photoDate |-> memory.date, note |-> memory.note, selectedMood |-> memory.mood]
    /\ isModalOpen' = TRUE
    /\ UNCHANGED <<memories, isSaving, save, calls, saves, picks, net, apiVars, gateVars, storeVars, migVars, deletes>>

\* The close button of the modal's header.
CloseModal ==
    /\ isAuthorized /\ isModalOpen
    /\ CloseModalOn
    /\ UNCHANGED <<memories, isSaving, save, calls, saves, picks, net, apiVars, gateVars, storeVars, migVars, deletes>>

\* A fresh image id: one no selected file has.
FreshImage(files) ==
    LET unused == {img \in Images : \A k \in 1..Len(files) : files[k] # img}
    IN CHOOSE img \in unused : \A other \in unused : other <= img

\* n new images appended, each with a fresh id.
WithNewImages(files, n) ==
    LET acc[k \in 0..n] == IF k = 0 THEN files
                           ELSE Append(acc[k - 1], FreshImage(acc[k - 1]))
    IN acc[n]

\* Lines 177-204: of the files picked, n are compressed and appended to the
\* selection (a file whose compression fails is skipped).
HandleFileSelect(n) ==
    /\ isAuthorized /\ isModalOpen
    /\ Len(form.selectedFiles) + n <= MaxImages
    /\ form' = [form EXCEPT !.selectedFiles = WithNewImages(@, n)]
    /\ UNCHANGED <<memories, isModalOpen, isSaving, save, calls, saves, picks, net,
                   apiVars, gateVars, storeVars, migVars, deletes>>

(***************************************************************************)
(* handleSaveMemory: the local write, then the sync to Drive and Sheets.   *)
(***************************************************************************)
\* A remote call of the sync, or its return: op is "upload" or "append"; for
\* an upload i is the position of the image and img the image, for the append
\* i is the number of urls passed; ev is "call", "ok" or "fail".
Event(op, i, img, ev) == [op |-> op, i |-> i, img |-> img, ev |-> ev]

\* A loop condition that stops after the first image.
LoopStopsAfterFirst(i, n) == i <= n /\ i <= 1

\* Line 291, with positions counted from 1: i < selectedFiles.length.
LoopContinues(i, n) == i <= n

\* An upload that never throws.
UploadNeverThrows(ok) == FALSE

\* Lines 229-249: uploadImageToDrive throws unless the response is ok and
\* carries a link.
UploadThrows(ok) == ~ok

\* Lines 291-298: the next remote call of the sync once i - 1 images are
\* uploaded: uploadImageToDrive of image i, which throws at line 220 before any
\* request when gapi.client holds no token, or appendToSheet.
NextCall(log, i, files, token) ==
    IF LoopContinues(i, Len(files))
    THEN IF token = NoToken
         THEN [pc |-> "syncFailed", i |-> i,
               calls |-> log \o <<Event("upload", i, files[i], "call"),
                                  Event("upload", i, files[i], "fail")>>]
         ELSE [pc |-> "upload", i |-> i,
               calls |-> Append(log, Event("upload", i, files[i], "call"))]
    ELSE [pc |-> "append", i |-> i - 1,
          calls |-> Append(log, Event("append", i - 1, 0, "call"))]

\* Lines 284-290: the sync block as the save enters it.
SyncOn(authorized, cfg, files, token) ==
    IF ~authorized THEN [pc |-> "localOnly", i |-> 0, calls |-> <<>>]
    ELSE IF ~IsGoogleConfigured(cfg) THEN [pc |-> "syncFailed", i |-> 0, calls |-> <<>>]
    ELSE NextCall(<<>>, 1, files, token)

\* Line 286 as the save reaches it: whether the sync finds the credentials.
SyncConfigured(authorized, cfg) == authorized /\ IsGoogleConfigured(cfg)

\* A save that reports a failed sync as a failed save.
ProceedReportsSaveFailure(c, configured) ==
    /\ calls' = c.calls
    /\ IF c.pc \in {"upload", "append"}
       THEN /\ save' = [save EXCEPT !.pc = c.pc, !.i = c.i, !.configured = configured]
            /\ UNCHANGED <<lastAlert, isModalOpen, form, isSaving>>
       ELSE /\ save' = [save EXCEPT !.pc = "idle", !.i = c.i, !.configured = configured,
                                    !.result = IF c.pc = "syncFailed" THEN "saveFailed" ELSE c.pc]
            /\ lastAlert' = (IF c.pc = "syncFailed" THEN "Failed to save memory" ELSE lastAlert)
            /\ CloseModalOn
            /\ isSaving' = FALSE

\* The save goes on to where c says: it waits for the remote call just made,
\* or it ends: lines 300-303 on a failure of the sync, then line 306 and
\* line 312.
Proceed(c, configured) ==
    /\ calls' = c.calls
    /\ IF c.pc \in {"upload", "append"}
       THEN /\ save' = [save EXCEPT !.pc = c.pc, !.i = c.i, !.configured = configured]
            /\ UNCHANGED <<lastAlert, isModalOpen, form, isSaving>>
       ELSE /\ save' = [save EXCEPT !.pc = "idle", !.i = c.i, !.result = c.pc,
                                    !.configured = configured]
            /\ lastAlert' = (IF c.pc = "syncFailed" THEN "Saved locally, but failed to upload"
                             ELSE lastAlert)
            /\ CloseModalOn
            /\ isSaving' = FALSE

\* An update of the list that leaves the edited record as it was.
ReplacedNowhere(list, updatedMemory) == list

\* prev.map(m => m.id === editingId ? updatedMemory : m)
Replaced(list, updatedMemory) ==
    [k \in 1..Len(list) |-> IF list[k].id = updatedMemory.id THEN updatedMemory ELSE list[k]]

\* crypto.randomUUID(): an id no record has. Nothing in a session reads more of
\* an id than which record it names, so the least unused one stands for it.
FreshId == CHOOSE id \in Ids \ DOMAIN db : \A other \in Ids \ DOMAIN db : id <= other

\* A handler without the check of the selection at line 256.
HandleSaveMemoryOfNothing ==
    /\ isAuthorized /\ isModalOpen /\ ~isSaving
    /\ saves < MaxSaves
    /\ form.editingId = NoId => Ids \ DOMAIN db # {}
    /\ saves' = saves + 1
    /\ IF ~profile.set
       THEN UNCHANGED <<isSaving, save, calls>>
       ELSE /\ isSaving' = TRUE
            /\ calls' = <<>>
            /\ \E id \in Ids :
                /\ IF form.editingId # NoId THEN id = form.editingId ELSE id = FreshId
                /\ save' = [pc |-> "db", i |-> 0, files |-> form.selectedFiles,
                            rec |-> [Memory(id, form.photoDate, form.selectedFiles,
                                            form.note, form.selectedMood)
                                     EXCEPT !.calculatedAge =
                                         CalculateAge(profile.birthday, form.photoDate)],
                            editing |-> form.editingId # NoId,
                            isAuthorized |-> isAuthorized,
                            configured |-> FALSE, result |-> "pending"]
    /\ UNCHANGED <<memories, isModalOpen, form, picks, net, apiVars, gateVars, storeVars, migVars, deletes>>

\* Lines 255-276/280: handleSaveMemory is called from the modal while no save is
\* pending; it returns at once without a profile or with nothing selected
\* (line 256; the button that calls it is disabled then, line 720). The
\* handler works on the state of the render it belongs to.
HandleSaveMemory ==
    /\ isAuthorized /\ isModalOpen /\ ~isSaving
    /\ saves < MaxSaves
    /\ form.editingId = NoId => Ids \ DOMAIN db # {}
    /\ saves' = saves + 1
    /\ IF ~profile.set \/ Len(form.selectedFiles) = 0
       THEN UNCHANGED <<isSaving, save, calls>>
       ELSE /\ isSaving' = TRUE
            /\ calls' = <<>>
            /\ \E id \in Ids :
                /\ IF form.editingId # NoId THEN id = form.editingId ELSE id = FreshId
                /\ save' = [pc |-> "db", i |-> 0, files |-> form.selectedFiles,
                            rec |-> [Memory(id, form.photoDate, form.selectedFiles,
                                            form.note, form.selectedMood)
                                     EXCEPT !.calculatedAge =
                                         CalculateAge(profile.birthday, form.photoDate)],
                            editing |-> form.editingId # NoId,
                            isAuthorized |-> isAuthorized,
                            configured |-> FALSE, result |-> "pending"]
    /\ UNCHANGED <<memories, isModalOpen, form, picks, net, apiVars, gateVars, storeVars, migVars, deletes>>

\* Lines 276-290 and 308-312: saveMemoryToDB settles. Rejected, the save ends
\* with its alert. Resolved, the record joins the list and the sync starts.
SaveMemorySettles ==
    /\ save.pc = "db"
    /\ \E open \in Outcomes, req \in Outcomes :
        LET r == SaveMemoryToDBOn(db, save.rec, open, req)
        IN /\ db' = r.db
           /\ dbRet' = Settled("put", save.rec, r.outcome, r.value, db)
           /\ IF r.outcome = "rejected"
              THEN /\ save' = [save EXCEPT !.pc = "idle", !.result = "saveFailed"]
                   /\ lastAlert' = "Failed to save memory"
                   /\ isSaving' = FALSE
                   /\ UNCHANGED <<memories, isModalOpen, form, calls>>
              ELSE /\ memories' = (IF save.editing THEN Replaced(memories, save.rec)
                                   ELSE <<save.rec>> \o memories)
                   /\ Proceed(SyncOn(save.isAuthorized, config, save.files, gapiToken),
                              SyncConfigured(save.isAuthorized, config))
    /\ UNCHANGED <<saves, picks, net, apiVars, gapiToken, isAuthorized, currentUser, isCheckingAuth,
                   isSettingsOpen, profile, si, lastValidate, migVars, deletes>>

\* Lines 294-298: the upload in flight returns; the loop goes on, or the
\* error leaves it.
UploadReturns ==
    /\ save.pc = "upload"
    /\ \E ok \in BOOLEAN :
        LET log == Append(calls, Event("upload", save.i, save.files[save.i],
                                       IF ok THEN "ok" ELSE "fail"))
        IN IF UploadThrows(ok)
           THEN Proceed([pc |-> "syncFailed", i |-> save.i, calls |-> log], save.configured)
           ELSE Proceed(NextCall(log, save.i + 1, save.files, gapiToken), save.configured)
    /\ UNCHANGED <<memories, saves, picks, net, apiVars, gapiToken, isAuthorized, currentUser,
                   isCheckingAuth, isSettingsOpen, profile, si, lastValidate,
                   storeVars, migVars, deletes>>

\* Lines 298-306: appendToSheet returns or throws.
AppendReturns ==
    /\ save.pc = "append"
    /\ \E ok \in BOOLEAN :
        Proceed([pc |-> IF ok THEN "synced" ELSE "syncFailed", i |-> save.i,
                 calls |-> Append(calls, Event("append", save.i, 0,
                                               IF ok THEN "ok" ELSE "fail"))],
                save.configured)
    /\ UNCHANGED <<memories, saves, picks, net, apiVars, gapiToken, isAuthorized, currentUser,
                   isCheckingAuth, isSettingsOpen, profile, si, lastValidate,
                   storeVars, migVars, deletes>>

\* A record saved in an earlier session.
EarlierMemory == Memory(1, <<2023, 12, 31>>, <<1>>, "first steps", "Happy")

\* An authorized session over a store: the startup has loaded the store, the
\* API is loaded, and the sign-in of an allow-listed account has ended (with
\* the settings open when no profile is saved).
Session(store) ==
    /\ db = store
    /\ dbRet = Settled("getAll", NoItem, "resolved", SortByDate(IDBGetAll(db)), db)
    /\ ls = NullItem
    /\ mig = MigDone("skipped")
    /\ txn = [state |-> "none", writes |-> <<>>]
    /\ migSnap = [db |-> EmptyStore, ls |-> NullItem]
    /\ runs = 1
    /\ isLoadingData = FALSE
    /\ tokenClient = "client"
    /\ gapiInited = TRUE
    /\ gisInited = TRUE
    /\ loads = <<>>
    /\ scripts = TRUE
    /\ isGoogleReady = TRUE
    /\ gapiToken = "token"
    /\ isAuthorized = TRUE
    /\ currentUser = Email(<<"A">>)
    /\ isCheckingAuth = FALSE
    /\ profile \in Profiles \cup {NoProfile}
    /\ isSettingsOpen = ~profile.set
    /\ lastAlert = "none"
    /\ si = SignInIdle
    /\ lastValidate = [email |-> Email(<<"A">>),
                       read |-> Values(<< <<(<<" ", "a", " ">>)>> >>), result |-> "true"]
    /\ memories = dbRet.value
    /\ isModalOpen = FALSE
    /\ form = EmptyForm
    /\ isSaving = FALSE
    /\ save = SaveIdle
    /\ calls = <<>>
    /\ saves = 0
    /\ picks = <<>>
    /\ net = NetIdle
    /\ deletes = <<>>

\* The authorized session over a store that is empty or holds an earlier
\* record.
SignedIn == \E store \in {EmptyStore, IDBPut(EmptyStore, EarlierMemory)} : Session(store)

\* The authorized session under a full configuration.
InitSave == config = FullConfig /\ SignedIn

NextSave ==
    \/ OpenAddModal
    \/ \E k \in 1..Len(memories) : OpenEditModal(memories[k])
    \/ CloseModal
    \/ \E n \in 1..MaxImages : HandleFileSelect(n)
    \/ HandleSaveMemory
    \/ SaveMemorySettles
    \/ UploadReturns
    \/ AppendReturns
    \/ HandleLogout
    \/ OpenSettings
    \/ CloseSettings
    \/ \E newProfile \in Profiles, newConfig \in Configs : HandleSaveSettings(newProfile, newConfig)
    \/ \E i \in 1..Len(loads) : GapiClientInit(i)

\* Saves of an authorized session, with sign-out and settings beside them.
SpecSave == InitSave /\ [][NextSave]_vars

(***************************************************************************)
(* handleFileSelect file by file: the loop over the picked files, each     *)
(* awaited compressImage, the update of the selection, the analysis.       *)
(***************************************************************************)
\* In the history of a call: a file whose compressImage rejected.
NoImage == 0

\* A pending handleFileSelect call: the number of files of the change event,
\* the note of the render the handler belongs to, the array newImages, and
\* for every file processed so far the id of its image or NoImage.
Pick(n, note) ==
    [pc |-> "compress", n |-> n, note |-> note, newImages |-> <<>>, done |-> <<>>]

\* The files the form and the pending calls hold.
FilesHeld ==
    LET pending[k \in 0..Len(picks)] == IF k = 0 THEN 0 ELSE pending[k - 1] + picks[k].n
    IN Len(form.selectedFiles) + pending[Len(picks)]

\* crypto.randomUUID(): an id no image has.
RandomUUID ==
    LET used == {form.selectedFiles[k] : k \in 1..Len(form.selectedFiles)}
                \cup UNION {{q.newImages[k] : k \in 1..Len(q.newImages)} :
                            q \in {picks[p] : p \in 1..Len(picks)}}
                \cup UNION {{m.images[k] : k \in 1..Len(m.images)} :
                            m \in {memories[j] : j \in 1..Len(memories)}}
    IN CHOOSE id \in 1..(Cardinality(used) + 1) :
        id \notin used /\ \A other \in 1..(id - 1) : other \in used

\* Lines 206-208: the remove button of a selected image.
HandleRemoveFile(fileId) ==
    /\ isAuthorized /\ isModalOpen
    /\ \E k \in 1..Len(form.selectedFiles) : form.selectedFiles[k] = fileId
    /\ form' = [form EXCEPT !.selectedFiles = SelectSeq(@, LAMBDA f : f # fileId)]
    /\ UNCHANGED <<memories, isModalOpen, isSaving, save, calls, saves, picks, net,
                   apiVars, gateVars, storeVars, migVars, deletes>>

\* Lines 177-185: the change event of the file input with n files; the
\* handler runs up to the first await of compressImage.
StartFileSelect(n) ==
    /\ isAuthorized /\ isModalOpen
    /\ FilesHeld + n <= MaxFiles
    /\ picks' = Append(picks, Pick(n, form.note))
    /\ UNCHANGED <<memories, isModalOpen, form, isSaving, save, calls, saves, net,
                   apiVars, gateVars, storeVars, migVars, deletes>>

\* The mutation of CompressReturns in which a rejected file ends the loop.
CompressReturnsAndBreaks(p, ok) ==
    /\ p \in 1..Len(picks) /\ picks[p].pc = "compress"
    /\ LET q == picks[p]
           newImages == IF ok THEN Append(q.newImages, RandomUUID) ELSE q.newImages
           done == Append(q.done, IF ok THEN RandomUUID ELSE NoImage)
       IN IF ok /\ Len(done) < q.n
          THEN /\ picks' = [picks EXCEPT ![p] = [q EXCEPT !.newImages = newImages,
                                                          !.done = done]]
               /\ UNCHANGED form
          ELSE /\ form' = [form EXCEPT !.selectedFiles = @ \o newImages]
               /\ picks' = RemoveAt(picks, p)
    /\ UNCHANGED <<memories, isModalOpen, isSaving, save, calls, saves, net,
                   apiVars, gateVars, storeVars, migVars, deletes>>

\* Lines 184-202 and imageUtils 1-37: the compressImage awaited by call p
\* settles. Resolved, the image is pushed with a fresh id; rejected, the
\* error is logged and nothing is pushed. Then the next file is started, or
\* after the last file newImages is appended to the selection as it is now,
\* and the first new image is sent to the analysis when there is one and the
\* handler's note is empty.
CompressReturns(p, ok) ==
    /\ p \in 1..Len(picks) /\ picks[p].pc = "compress"
    /\ LET q == picks[p]
           newImages == IF ok THEN Append(q.newImages, RandomUUID) ELSE q.newImages
           done == Append(q.done, IF ok THEN RandomUUID ELSE NoImage)
       IN IF Len(done) < q.n
          THEN /\ picks' = [picks EXCEPT ![p] = [q EXCEPT !.newImages = newImages,
                                                          !.done = done]]
               /\ UNCHANGED form
          ELSE /\ form' = [form EXCEPT !.selectedFiles = @ \o newImages]
               /\ picks' = IF Len(newImages) > 0 /\ q.note = ""
                           THEN [picks EXCEPT ![p] = [q EXCEPT !.pc = "analyze",
                                                               !.newImages = newImages,
                                                               !.done = done]]
                           ELSE RemoveAt(picks, p)
    /\ UNCHANGED <<memories, isModalOpen, isSaving, save, calls, saves, net,
                   apiVars, gateVars, storeVars, migVars, deletes>>

\* analyzeImage found nothing, threw, or was built without an API key.
NoAnalysis == [mood |-> "null", suggestedNote |-> "null"]

\* What analyzeImage hands back.
Analyses == {NoAnalysis} \cup [mood : Moods, suggestedNote : Notes]

\* Lines 210-223: the analysis started by call p settles; a result sets the
\* mood and the note of the form.
AnalyzeReturns(p, result) ==
    /\ p \in 1..Len(picks) /\ picks[p].pc = "analyze"
    /\ form' = IF result = NoAnalysis THEN form
               ELSE [form EXCEPT !.selectedMood = result.mood,
                                 !.note = result.suggestedNote]
    /\ picks' = RemoveAt(picks, p)
    /\ UNCHANGED <<memories, isModalOpen, isSaving, save, calls, saves, net,
                   apiVars, gateVars, storeVars, migVars, deletes>>

NextSelect ==
    \/ OpenAddModal
    \/ \E k \in 1..Len(memories) : OpenEditModal(memories[k])
    \/ CloseModal
    \/ \E fileId \in 1..(MaxFiles + 1) : HandleRemoveFile(fileId)
    \/ \E n \in 1..MaxFiles : StartFileSelect(n)
    \/ \E p \in 1..Len(picks), ok \in BOOLEAN : CompressReturns(p, ok)
    \/ \E p \in 1..Len(picks), result \in Analyses : AnalyzeReturns(p, result)

\* The compose form of an authorized session, with the file selections that
\* are pending beside it.
SpecSelect == InitSave /\ [][NextSelect]_vars

(***************************************************************************)
(* googleCloudService: uploadImageToDrive and appendToSheet, call by call. *)
(***************************************************************************)
\* Line 212: parents of the upload's metadata.
Parents(cfg) == IF cfg.driveFolderId # 0 THEN <<cfg.driveFolderId>> ELSE <<>>

\* Lines 223-227: the multipart POST to the Drive upload endpoint.
DriveRequest(token, image, cfg) ==
    [api |-> "drive.files", authorization |-> token, parents |-> Parents(cfg),
     file |-> image]

\* What the fetch of line 223 settles with: a response (ok is status 200-299,
\* text is its body, the links are those of its JSON or "" when absent), or a
\* rejection when the request did not get through.
Response(status, text, thumbnailLink, webViewLink) ==
    [rejected |-> FALSE, ok |-> status \in 200..299, status |-> status, text |-> text,
     thumbnailLink |-> thumbnailLink, webViewLink |-> webViewLink]

FetchRejected ==
    [rejected |-> TRUE, ok |-> FALSE, status |-> 0, text |-> "Failed to fetch",
     thumbnailLink |-> "", webViewLink |-> ""]

Responses ==
    {Response(200, "", t, w) : t \in {"", "thumb=s220", "thumb"}, w \in {"", "view"}}
    \cup {Response(status, text, "", "") : status \in {401, 500}, text \in {"", "denied"}}
    \cup {Response(403, "quota", "thumb=s220", "view")}
    \cup {FetchRejected}

\* Line 239: thumbnailLink.replace('=s220', '=w4096').
HighResolution(thumbnailLink) ==
    IF thumbnailLink = "thumb=s220" THEN "thumb=w4096" ELSE thumbnailLink

\* Lines 247-250 and 273-276: the catch block's Error.
Rejected(prefix, message, status, text) == Settlement("rejected", prefix, message, status, text)

Resolved(text) == Settlement("resolved", "", "", 0, text)

\* Lines 219-220: the token check, which throws before any request.
NoTokenError ==
    Rejected("Image Upload Error", "No Google Access Token found. Please login again.", 0, "")

\* An upload that takes any response for a success.
UploadSettlesIgnoringStatus(response) ==
    IF response.thumbnailLink # "" THEN Resolved(HighResolution(response.thumbnailLink))
    ELSE Resolved(response.webViewLink)

\* Lines 229-249: what uploadImageToDrive makes of the settled fetch.
UploadSettles(response) ==
    IF response.rejected THEN Rejected("Image Upload Error", response.text, 0, "")
    ELSE IF ~response.ok
    THEN Rejected("Image Upload Error", "Drive Upload Failed", response.status, response.text)
    ELSE IF response.thumbnailLink # "" THEN Resolved(HighResolution(response.thumbnailLink))
    ELSE IF response.webViewLink = ""
    THEN Rejected("Image Upload Error", "Drive Upload successful but links are missing.", 0, "")
    ELSE Resolved(response.webViewLink)

\* Lines 204-227: uploadImageToDrive is called; without a token it rejects at
\* once, with one it sends the request and waits.
UploadImageToDrive(image) ==
    /\ net.pc = "idle"
    /\ net' = IF gapiToken = NoToken
              THEN [pc |-> "idle", sent |-> <<>>, result |-> NoTokenError]
              ELSE [pc |-> "fetch", sent |-> <<DriveRequest(gapiToken, image, config)>>,
                    result |-> NotSettled]
    /\ UNCHANGED <<memories, isModalOpen, form, isSaving, save, calls, saves, picks,
                   apiVars, gateVars, storeVars, migVars, deletes>>

\* Lines 223-250: the fetch settles.
FetchReturns(response) ==
    /\ net.pc = "fetch"
    /\ net' = [net EXCEPT !.pc = "idle", !.result = UploadSettles(response)]
    /\ UNCHANGED <<memories, isModalOpen, form, isSaving, save, calls, saves, picks,
                   apiVars, gateVars, storeVars, migVars, deletes>>

\* Urls uploadImageToDrive resolves with.
Urls == {HighResolution("thumb=s220"), "view"}

\* Lines 256-262 without the last cells: date, calculatedAge, mood, note.
RowHead(memory) == <<memory.date, memory.calculatedAge, memory.mood, memory.note>>

\* A row that leaves the age out.
RowDataWithoutAge(memory, imageUrls) ==
    <<memory.date, memory.mood, memory.note>> \o imageUrls

\* Lines 256-262: rowData.
RowData(memory, imageUrls) == RowHead(memory) \o imageUrls

\* Lines 265-272: the values.append request.
SheetsRequest(cfg, rowData) ==
    [api |-> "sheets.values.append", spreadsheetId |-> cfg.spreadsheetId,
     range |-> "Sheet1!A1", valueInputOption |-> "USER_ENTERED", values |-> <<rowData>>]

\* Lines 253-272: appendToSheet is called with a record and the urls of its
\* images; it sends its one request and waits.
AppendToSheet(memory, imageUrls) ==
    /\ net.pc = "idle"
    /\ net' = [pc |-> "append",
               sent |-> <<SheetsRequest(config, RowData(memory, imageUrls))>>,
               result |-> NotSettled]
    /\ UNCHANGED <<memories, isModalOpen, form, isSaving, save, calls, saves, picks,
                   apiVars, gateVars, storeVars, migVars, deletes>>

\* What the service answers to an append: nothing to report, or a message.
AppendAnswers == {"", "Unable to parse range: Sheet1!A1", "The caller does not have permission"}

\* Lines 265-276: the request settles; a rejection is thrown on as
\* "Sheets Append Failed: ..." with the service's message.
ValuesAppendReturns(answer) ==
    /\ net.pc = "append"
    /\ net' = [net EXCEPT !.pc = "idle",
                          !.result = IF answer = "" THEN Resolved("")
                                     ELSE Rejected("Sheets Append Failed", answer, 0, "")]
    /\ UNCHANGED <<memories, isModalOpen, form, isSaving, save, calls, saves, picks,
                   apiVars, gateVars, storeVars, migVars, deletes>>

\* The records appendToSheet is handed.
Appended == {EarlierMemory, Memory(2, Today, <<1>>, "", "Neutral")}

UrlLists == UNION {[1..n -> Urls] : n \in 0..MaxImages}

\* The configurations an authorized session can be under.
InitRemote == config \in {c \in WideConfigs : IsGoogleConfigured(c)} /\ SignedIn

NextRemote ==
    \/ \E image \in Images : UploadImageToDrive(image)
    \/ \E response \in Responses : FetchReturns(response)
    \/ \E memory \in Appended, imageUrls \in UrlLists : AppendToSheet(memory, imageUrls)
    \/ \E answer \in AppendAnswers : ValuesAppendReturns(answer)
    \/ HandleLogout

\* The calls of the service during an authorized session and after its
\* sign-out.
SpecRemote == InitRemote /\ [][NextRemote]_vars

(***************************************************************************)
(* The list of records: date edits in the form, handleDeleteMemory.        *)
(***************************************************************************)
\* The date input of the form (setPhotoDate).
SetPhotoDate(date) ==
    /\ isAuthorized /\ isModalOpen
    /\ form' = [form EXCEPT !.photoDate = date]
    /\ UNCHANGED <<memories, isModalOpen, isSaving, save, calls, saves, picks, net,
                   apiVars, gateVars, storeVars, migVars, deletes>>

\* Lines 316-319: the delete button of a record shown in the list, confirmed;
\* the modal, when open, covers the list. One delete is pending at a time.
HandleDeleteMemory(id) ==
    /\ isAuthorized /\ ~isModalOpen
    /\ \E k \in 1..Len(memories) : memories[k].id = id
    /\ deletes = <<>>
    /\ deletes' = Append(deletes, id)
    /\ UNCHANGED <<memories, isModalOpen, form, isSaving, save, calls, saves, picks, net,
                   apiVars, gateVars, storeVars, migVars>>

\* Lines 319-328: the oldest pending deleteMemoryFromDB settles. Resolved, the
\* record leaves the list; rejected, the alert is shown.
DeleteSettles ==
    /\ deletes # <<>>
    /\ \E open \in Outcomes, req \in Outcomes :
        LET r == DeleteMemoryFromDBOn(db, Head(deletes), open, req)
        IN /\ db' = r.db
           /\ dbRet' = Settled("delete", Head(deletes), r.outcome, r.value, db)
           /\ IF r.outcome = "rejected"
              THEN lastAlert' = "Failed to delete" /\ UNCHANGED memories
              ELSE /\ memories' = SelectSeq(memories, LAMBDA m : m.id # Head(deletes))
                   /\ UNCHANGED lastAlert
    /\ deletes' = Tail(deletes)
    /\ UNCHANGED <<isModalOpen, form, isSaving, save, calls, saves, picks, net, apiVars,
                   gapiToken, isAuthorized, currentUser, isCheckingAuth, isSettingsOpen,
                   profile, si, lastValidate, migVars>>

NextCompose ==
    \/ OpenAddModal
    \/ \E k \in 1..Len(memories) : OpenEditModal(memories[k])
    \/ CloseModal
    \/ \E fileId \in Images : HandleRemoveFile(fileId)
    \/ \E n \in 1..MaxImages : HandleFileSelect(n)
    \/ HandleSaveMemory
    \/ SaveMemorySettles
    \/ UploadReturns
    \/ AppendReturns

\* The composer of an authorized session: images selected and removed, the
\* record saved and synced.
SpecCompose == InitSave /\ [][NextCompose]_vars

\* A record of an earlier session, dated between the other dates.
MiddleMemory == Memory(2, <<2024, 1, 15>>, <<1>>, "", "Neutral")

\* An authorized session whose settings hold no credentials (they were saved
\* so during the session), over a store that holds one record: every save
\* ends with its write to the store and the warning of line 302.
InitList ==
    /\ config = BlankConfig
    /\ Session(IDBPut(EmptyStore, MiddleMemory))
    /\ profile.set

NextList ==
    \/ OpenAddModal
    \/ \E k \in 1..Len(memories) : OpenEditModal(memories[k])
    \/ CloseModal
    \/ \E date \in Dates : SetPhotoDate(date)
    \/ \E n \in 1..MaxImages : HandleFileSelect(n)
    \/ HandleSaveMemory
    \/ SaveMemorySettles
    \/ \E id \in Ids : HandleDeleteMemory(id)
    \/ DeleteSettles

\* The records of an authorized session: saved, edited and deleted.
SpecList == InitList /\ [][NextList]_vars

\* C7: the allow-list check fails closed and tells its two failures apart:
\* a read of column A that returns no values or no rows makes
\* validateUserAccess return false for whatever email it was given, and the
\* sign-in ends unauthorized; a read that fails makes it throw instead of
\* returning a result.
C7_FailClosed ==
    lastValidate.result # "none" =>
        /\ (lastValidate.read.ok
                /\ (~lastValidate.read.defined \/ Len(lastValidate.read.values) = 0))
            => (lastValidate.result = "false" /\ ~isAuthorized)
        /\ ~lastValidate.read.ok => (lastValidate.result = "error" /\ ~isAuthorized)
        /\ lastValidate.result = "error" =>
                (~lastValidate.read.ok \/ ~lastValidate.email.defined)

\* C7 witness: a sign-in of a known account was refused on an empty column.
C7_Witness ==
    /\ lastValidate.result = "false"
    /\ lastValidate.read = NoValues
    /\ lastValidate.email = Email(<<"A">>)
    /\ lastAlert = "Access Denied"

\* The email, trimmed and lower-cased, equals some trimmed, lower-cased cell of
\* the values read.
AllowListed(email, read) ==
    /\ read.ok /\ read.defined /\ email.defined
    /\ \E r \in 1..Len(read.values) : \E c \in 1..Len(read.values[r]) :
            ToLowerCase(Trim(read.values[r][c])) = ToLowerCase(Trim(email.str))

C8_AuthorizedIsAllowListed ==
    isAuthorized =>
        /\ lastValidate.result = "true"
        /\ AllowListed(lastValidate.email, lastValidate.read)
        /\ currentUser = lastValidate.email

C8_OnlySignInAuthorizes ==
    (~isAuthorized /\ isAuthorized') =>
        /\ si.pc = "validate" /\ si.handshake
        /\ lastValidate'.email = si.email
        /\ AllowListed(si.email, lastValidate'.read)

\* C8: the session is authorized only by a sign-in whose handshake succeeded
\* and whose account email, trimmed and lower-cased, equals a trimmed,
\* lower-cased cell of column A as that sign-in read it; no other step sets
\* isAuthorized.
C8_GateOpensOnlyForAllowListed ==
    [](C8_AuthorizedIsAllowListed) /\ [][C8_OnlySignInAuthorizes]_vars

\* C8 witness: account "A" is authorized by the padded cell " a " in the
\* second row of the column.
C8_Witness ==
    /\ isAuthorized
    /\ currentUser = Email(<<"A">>)
    /\ lastValidate.read = Values(<< <<(<<"B">>)>>, <<(<<" ", "a", " ">>)>> >>)

\* The legacy list this startup's migration read.
LegacyList == JSONParse(migSnap.ls).value.items

C4_StoreHoldsLegacy ==
    (mig.result = "migrated" /\ migSnap.db = EmptyStore) =>
        LET all == GetAllMemoriesFromDBOn(db, "ok", "ok").value
        IN /\ Len(all) = Len(LegacyList)
           /\ \A i \in 1..Len(LegacyList) :
                Cardinality({j \in 1..Len(all) : all[j] = LegacyList[i]}) = 1
           /\ ls = NullItem

C4_KeyRemovedAfterCommit ==
    (Truthy(ls) /\ ls' = NullItem) =>
        /\ txn.state = "committed"
        /\ \A i \in 1..Len(LegacyList) :
                HasKey(LegacyList[i]) /\ LegacyList[i].id \in DOMAIN db
                    /\ db[LegacyList[i].id] = LegacyList[i]

\* C4: when migrateFromLocalStorage completes successfully on a non-empty
\* legacy list and an empty store, the store holds every legacy entry exactly
\* once and the legacy key is absent; and the step that removes the legacy key
\* is taken only when the transaction has committed its puts to the store.
C4_MigrationCommitsThenClears ==
    [](C4_StoreHoldsLegacy) /\ [][C4_KeyRemovedAfterCommit]_vars

\* C4 witness: a migration of a two-entry list into an empty store completed.
C4_Witness ==
    /\ mig.result = "migrated" /\ migSnap.db = EmptyStore
    /\ Len(LegacyList) >= 2
    /\ Cardinality(DOMAIN db) >= 2

\* C5: a migration that ended in failure has left the legacy key with its
\* original value and the store as it was when the migration began.
C5_FailedMigrationLeavesStore ==
    mig.result = "failed" => (ls = migSnap.ls /\ db = migSnap.db)

\* C6: a migration that found the legacy key absent has opened no transaction
\* and left the store and local storage as they were; so a second startup after
\* a completed migration leaves the store as the first one made it.
C6_AbsentKeyIsNoOp ==
    (mig.pc = "done" /\ migSnap.ls = NullItem) =>
        /\ db = migSnap.db
        /\ ls = NullItem
        /\ txn.state = "none"
        /\ mig.result = "skipped"

\* C6 witness: the second startup, after a migration that filled the store,
\* found the key absent.
C6_Witness ==
    /\ mig.pc = "done" /\ migSnap.ls = NullItem
    /\ runs = 2
    /\ db # EmptyStore

\* The remote calls of a sync in which every call succeeds: each image
\* uploaded in turn, every upload returned before the next is called, then one
\* append with one url per image.
IdealCalls(files) ==
    LET uploads[k \in 0..Len(files)] ==
            IF k = 0 THEN <<>>
            ELSE uploads[k - 1] \o <<Event("upload", k, files[k], "call"),
                                     Event("upload", k, files[k], "ok")>>
    IN uploads[Len(files)]
        \o <<Event("append", Len(files), 0, "call"), Event("append", Len(files), 0, "ok")>>

IsPrefix(a, b) == Len(a) <= Len(b) /\ a = SubSeq(b, 1, Len(a))

NoFailure(log) == \A k \in 1..Len(log) : log[k].ev # "fail"

\* The save has written its record and gone through the sync block.
SyncEnded == save.pc = "idle" /\ save.isAuthorized /\ save.result \in {"synced", "syncFailed"}

InGetAll(memory) ==
    LET all == GetAllMemoriesFromDBOn(db, "ok", "ok").value
    IN \E k \in 1..Len(all) : all[k] = memory

\* C10: a failed remote call is the last event of its save: no upload and no
\* append follows it, no call is made twice, and the save ends with the sync
\* warning; and whenever a save has written its record, whatever became of
\* the sync, getAllMemoriesFromDB() still returns that record as written.
C10_FailureEndsSyncKeepsRecord ==
    /\ \A k \in 1..Len(calls) :
            calls[k].ev = "fail" =>
                /\ k = Len(calls)
                /\ save.pc = "idle" /\ save.result = "syncFailed"
    /\ \A j, k \in 1..Len(calls) :
            (j < k /\ calls[j].ev = "call" /\ calls[k].ev = "call") =>
                (calls[j].op = "upload" /\ (calls[k].op = "append" \/ calls[j].i < calls[k].i))
    /\ (save.pc \in {"upload", "append"} \/ save.result \in {"synced", "syncFailed", "localOnly"})
            => InGetAll(save.rec)

\* C10 witness: the second of two uploads failed; the save has ended and the
\* record is stored.
C10_Witness ==
    /\ save.pc = "idle" /\ save.result = "syncFailed"
    /\ Len(save.files) = 2
    /\ Len(calls) = 4
    /\ calls[4] = Event("upload", 2, save.files[2], "fail")
    /\ db[save.rec.id] = save.rec

\* Client id, api key and spreadsheet id are there and long enough.
FullyPopulated(c) == c.clientId > 10 /\ c.apiKey > 10 /\ c.spreadsheetId > 5

C11_UnconfiguredRequestStops ==
    (HandleGoogleSignIn /\ ~FullyPopulated(config)) =>
        /\ ~isCheckingAuth' /\ si' = SignInIdle
        /\ isAuthorized' = isAuthorized /\ currentUser' = currentUser
        /\ gapiToken' = gapiToken /\ lastValidate' = lastValidate

C11_FolderIdIsIgnored ==
    \A c \in WideConfigs :
        /\ IsGoogleConfigured(c) = IsGoogleConfigured([c EXCEPT !.driveFolderId = 0])
        /\ IsGoogleConfigured(c) = FullyPopulated(c)

\* C11: a sign-in request under a configuration whose client id, api key or
\* spreadsheet id is missing or too short ends at once: isCheckingAuth stays
\* false, no handshake is started, and the authorized flag, the current user
\* and the token are as before; whether a folder id is set changes nothing.
C11_ConfigMissingFailsAtOnce ==
    [](C11_FolderIdIsIgnored) /\ [][C11_UnconfiguredRequestStops]_vars

\* C11 witness: a request was refused with a spreadsheet id one character too
\* short and a folder id set.
C11_Witness ==
    /\ config = GoogleConfig(11, 11, 5, 33)
    /\ lastAlert = "credentials missing"
    /\ isSettingsOpen /\ ~isCheckingAuth /\ si = SignInIdle /\ ~isAuthorized

C12_DeniedStep ==
    (/\ si.pc = "validate" /\ si'.pc = "idle"
     /\ si.handshake /\ si.email.defined
     /\ lastValidate'.read.ok
     /\ ~AllowListed(si.email, lastValidate'.read)) =>
        /\ ~isAuthorized' /\ ~isCheckingAuth'
        /\ currentUser' = NoUser
        /\ gapiToken' = NoToken
        /\ lastAlert' = "Access Denied"

\* C12: a sign-in whose handshake succeeded and whose account email is in no
\* cell of the column it read ends denied: isAuthorized is false, no current
\* user is recorded, and gapi.client holds no token any more.
C12_DeniedDiscardsToken == [][C12_DeniedStep]_vars

\* C12 witness: account "b" was refused against a column that lists only
\* " a ", and the token of its handshake is gone.
C12_Witness ==
    /\ lastValidate.email = Email(<<"b">>)
    /\ lastValidate.read = Values(<< <<(<<" ", "a", " ">>)>> >>)
    /\ lastValidate.result = "false"
    /\ lastAlert = "Access Denied"
    /\ gapiToken = NoToken /\ ~isAuthorized /\ currentUser = NoUser /\ si = SignInIdle

\* The handshake of a sign-in returns: with a token, and the sign-in goes on;
\* or with an error, and the sign-in is over, the error shown, nobody
\* authorized and no token taken.
C13_HandshakeReturn ==
    (si.pc = "handshake" /\ si' # si) =>
        \/ si'.pc = "profile" /\ si'.handshake /\ gapiToken' = "token"
        \/ /\ si' = SignInIdle
           /\ ~isAuthorized' /\ ~isCheckingAuth'
           /\ currentUser' = NoUser
           /\ gapiToken' = gapiToken
           /\ lastAlert' = "Login Failed: Google Login Failed"

\* A handshake starts only in the step of a sign-in request, and none is
\* requested while one is pending.
C13_HandshakeStart ==
    (si'.pc = "handshake" /\ si.pc # "handshake") =>
        (HandleGoogleSignIn /\ si.pc = "idle" /\ ~isCheckingAuth)

\* C13: a failed handshake leaves the gate unauthenticated (isAuthorized
\* false, isCheckingAuth false) with the error alerted, and a handshake is
\* started by a sign-in request only, one per request, never again by itself.
C13_HandshakeFailureNoRetry ==
    /\ [](si.pc # "idle" => (isCheckingAuth /\ ~isAuthorized))
    /\ [][C13_HandshakeReturn]_vars
    /\ [][C13_HandshakeStart]_vars

\* C13 witness: the handshake of the first sign-in has failed.
C13_Witness ==
    /\ lastAlert = "Login Failed: Google Login Failed"
    /\ si = SignInIdle /\ ~isCheckingAuth /\ ~isAuthorized
    /\ gapiToken = NoToken /\ lastValidate = NoValidate

C14_SignOutStep ==
    (HandleLogout \/ (isAuthorized /\ ~isAuthorized')) =>
        /\ isAuthorized /\ ~isAuthorized'
        /\ currentUser' = NoUser
        /\ gapiToken' = NoToken
        /\ db' = db
        /\ memories' = memories

\* C14: a sign-out of an authorized session leaves isAuthorized false, the
\* current user cleared and no token with the client, and changes neither the
\* store nor the list of records in memory.
C14_SignOutKeepsRecords == [][C14_SignOutStep]_vars

\* C14 witness: signed out with two records in the store and in the list.
C14_Witness ==
    /\ ~isAuthorized /\ currentUser = NoUser /\ gapiToken = NoToken
    /\ DOMAIN db = {1, 2}
    /\ Len(memories) = 2

SyncPending == save.pc \in {"upload", "append"}

C15_SignOutDuringSync ==
    (HandleLogout /\ SyncPending) =>
        (db' = db /\ save' = save /\ calls' = calls /\ lastAlert' = lastAlert)

C15_SyncEnd ==
    (SyncPending /\ save'.pc = "idle") =>
        /\ save'.result \in {"synced", "syncFailed"}
        /\ lastAlert' \in {lastAlert, "Saved locally, but failed to upload"}
        /\ db' = db
        /\ save'.rec = save.rec

\* C15: a sign-out while the sync of a save is pending changes nothing of the
\* save; while the sync is pending and when it ends, signed out or not, the
\* record the save wrote is in the store as written, and the end of the sync
\* reports at most the sync warning, never a failed save.
C15_SignOutKeepsPendingSave ==
    /\ [](SyncPending => (InGetAll(save.rec) /\ save.result = "pending"))
    /\ [][C15_SignOutDuringSync]_vars
    /\ [][C15_SyncEnd]_vars

\* C15 witness: signed out while the first upload of a save is in flight; the
\* record is stored.
C15_Witness ==
    /\ ~isAuthorized /\ gapiToken = NoToken
    /\ save.pc = "upload" /\ save.i = 1
    /\ db[save.rec.id] = save.rec

\* The loader state right after a settings save: the flags and the token
\* client are those a first loadGoogleApi leaves under the new configuration.
C16_MachineryRecreated ==
    config' # config =>
        \E gisOk \in BOOLEAN :
            LET fresh == [gapiInited |-> FALSE, gisInited |-> FALSE,
                          tokenClient |-> "undefined", ready |-> FALSE]
                r == LoadGoogleApiOn(fresh, "setReady", config', scripts, gisOk)
            IN gapiInited' = r.api.gapiInited /\ gisInited' = r.api.gisInited
                /\ tokenClient' = r.api.tokenClient /\ isGoogleReady' = r.api.ready

C16_SessionInvalidated ==
    config' # config => ~(isAuthorized' /\ gapiToken' # NoToken)

\* C16: a settings save that changes the configuration does not leave the
\* session authorized with the token it had, and leaves the init flags and the
\* token client as a fresh load under the new configuration makes them.
C16_SettingsChangeResetsSession ==
    [][C16_SessionInvalidated]_vars /\ [][C16_MachineryRecreated]_vars

\* The part of C16 about the loader alone.
C16_LoaderReset == [][C16_MachineryRecreated]_vars

C17_FailedWriteStep ==
    (save.pc = "db" /\ save'.pc # "db" /\ dbRet'.outcome = "rejected") =>
        /\ db' = db
        /\ memories' = memories
        /\ calls' = <<>>
        /\ form' = form /\ isModalOpen' = isModalOpen
        /\ save'.pc = "idle" /\ save'.result = "saveFailed"
        /\ lastAlert' = "Failed to save memory"

\* C17: when saveMemoryToDB rejects, the save is over: the store and the list
\* in memory are as before, the form keeps its content and the modal its
\* state, the alert is that of a failed save, and no uploadImageToDrive or
\* appendToSheet call is made for that save, then or later.
C17_FailedWriteFailsSave ==
    /\ [][C17_FailedWriteStep]_vars
    /\ [](save.result = "saveFailed" => (calls = <<>> /\ save.pc = "idle"))

\* C17 witness: the first save of a session, with two images, failed at the
\* store; the form still holds the images.
C17_Witness ==
    /\ save.result = "saveFailed" /\ dbRet.outcome = "rejected"
    /\ lastAlert = "Failed to save memory"
    /\ isModalOpen /\ Len(form.selectedFiles) = 2 /\ ~isSaving
    /\ calls = <<>> /\ memories = <<>> /\ db = EmptyStore

\* The images of the files a call has processed, in the order of the files.
Normalized(done) == SelectSeq(done, LAMBDA image : image # NoImage)

\* A pending call has pushed one image for every file that was compressed so
\* far, in the order of the files, and is at one file of its selection.
C18_OneImagePerFileSoFar ==
    \A p \in 1..Len(picks) :
        /\ picks[p].newImages = Normalized(picks[p].done)
        /\ picks[p].pc = "compress" => Len(picks[p].done) < picks[p].n

\* The step in which call p leaves its loop.
C18_LoopEnds(p, ok) ==
    /\ CompressReturns(p, ok)
    /\ Len(picks') < Len(picks) \/ picks'[p].pc = "analyze"

\* A step of the loop takes one file; the step that leaves the loop has taken
\* the last file of the selection, whatever failed before, and appends the
\* images of the compressed files, in the order of the files, behind the
\* images the selection holds at that moment.
C18_SelectionStep ==
    \A p \in 1..Len(picks), ok \in BOOLEAN :
        LET q == picks[p]
            gained == Normalized(q.done) \o (IF ok THEN <<RandomUUID>> ELSE <<>>)
        IN /\ CompressReturns(p, ok) /\ ~C18_LoopEnds(p, ok) =>
                /\ Len(picks'[p].done) = Len(q.done) + 1
                /\ form' = form
           /\ C18_LoopEnds(p, ok) =>
                /\ Len(q.done) + 1 = q.n
                /\ form'.selectedFiles = form.selectedFiles \o gained
                /\ \A k \in 1..Len(gained), j \in 1..Len(form.selectedFiles) :
                    gained[k] # form.selectedFiles[j]

\* C18: in a selection of several files a file whose compressImage fails is
\* skipped and does not stop the others: the files are processed one at a
\* time, and when handleFileSelect has gone through them the selected images
\* are the ones that were there, unchanged, followed by exactly one new image
\* per compressed file, in the order of the selection.
C18_FailedFileIsSkipped == [](C18_OneImagePerFileSoFar) /\ [][C18_SelectionStep]_vars

\* A selection of two files of which the first failed has ended behind an
\* image that was selected before: the list holds that image and one more.
C18_Witness ==
    /\ isModalOpen /\ picks # <<>>
    /\ picks[1].pc = "analyze" /\ picks[1].n = 2
    /\ picks[1].done[1] = NoImage /\ picks[1].done[2] # NoImage
    /\ Len(form.selectedFiles) = 2
    /\ form.selectedFiles[2] = picks[1].done[2]

\* An upload is called.
C19_UploadStarts == \E image \in Images : UploadImageToDrive(image)

\* The call rejected for the missing token and sent nothing.
C19_FailedForToken == net'.pc = "idle" /\ net'.sent = <<>> /\ net'.result = NoTokenError

C19_UploadStep ==
    /\ C19_UploadStarts /\ gapiToken = NoToken => C19_FailedForToken
    /\ C19_UploadStarts /\ gapiToken # NoToken => Len(net'.sent) = 1 /\ net'.pc = "fetch"
    /\ \A response \in Responses :
        FetchReturns(response) /\ ~response.rejected /\ ~response.ok =>
            /\ net'.result.outcome = "rejected"
            /\ net'.result.status = response.status
            /\ net'.result.text = response.text
    /\ HandleLogout => gapiToken' = NoToken
    /\ C19_UploadStarts /\ ~isAuthorized => C19_FailedForToken

\* C19: uploadImageToDrive called while the client holds no access token
\* rejects with an error and sends no request; on every response that is not
\* ok it rejects with an error that carries the status and the body of the
\* response; a sign-out leaves the client without a token, so every upload
\* called after it rejects for the missing token.
C19_UploadFailsWithoutToken == [][C19_UploadStep]_vars

\* After a sign-out an upload was called and rejected for the missing token.
C19_Witness == ~isAuthorized /\ net.pc = "idle" /\ net.sent = <<>> /\ net.result = NoTokenError

C20_AppendStep ==
    /\ \A memory \in Appended, imageUrls \in UrlLists :
        AppendToSheet(memory, imageUrls) =>
            /\ Len(net'.sent) = 1
            /\ net'.sent[1].api = "sheets.values.append"
            /\ net'.sent[1].range = "Sheet1!A1"
            /\ Len(net'.sent[1].values) = 1
            /\ LET row == net'.sent[1].values[1]
               IN /\ Len(row) = 4 + Len(imageUrls)
                  /\ row[1] = memory.date
                  /\ row[2] = memory.calculatedAge
                  /\ row[3] = memory.mood
                  /\ row[4] = memory.note
                  /\ \A k \in 1..Len(imageUrls) : row[4 + k] = imageUrls[k]
    /\ \A answer \in AppendAnswers :
        ValuesAppendReturns(answer) =>
            /\ net'.sent = net.sent
            /\ answer # "" => net'.result = Rejected("Sheets Append Failed", answer, 0, "")
            /\ answer = "" => net'.result.outcome = "resolved"

\* C20: appendToSheet sends one append of exactly one row to Sheet1; the
\* cells of the row are, in this order, the record's date, its calculated
\* age, its mood and its note, then one cell per image url in the order of the
\* urls, 4 + the number of urls in all; when the service rejects the request
\* the call rejects with the append error that carries the service's message.
C20_AppendsOneRow == [][C20_AppendStep]_vars

\* An append of a record with two urls was sent and the service rejected it.
C20_Witness ==
    /\ net.pc = "idle" /\ net.result.prefix = "Sheets Append Failed"
    /\ Len(net.sent) = 1 /\ Len(net.sent[1].values[1]) = 6

\* handleSaveMemory is called with nothing selected.
C21_SaveOfNothing == HandleSaveMemory /\ Len(form.selectedFiles) = 0

\* The call writes nothing, changes nothing in memory and starts nothing.
C21_NothingHappens ==
    UNCHANGED <<db, dbRet, memories, isModalOpen, form, isSaving, save, calls, net, lastAlert>>

\* Every record of the store has at least one image.
C21_RecordsHaveImages == \A id \in DOMAIN db : Len(db[id].images) >= 1

\* C21: every record the composer writes to the store has at least one image:
\* handleSaveMemory called with an empty selection, for a new record or for an
\* edit whose images were all removed, writes nothing to the store, leaves the
\* list and the form as they are and starts no remote call.
C21_EmptySelectionSavesNothing ==
    [](C21_RecordsHaveImages) /\ [][C21_SaveOfNothing => C21_NothingHappens]_vars

\* The save was called on the edit of a record whose images were all removed:
\* the form is still open on it and the store still holds the record.
C21_Witness ==
    /\ saves = 1 /\ save.result = "none" /\ isModalOpen
    /\ form.editingId # NoId /\ form.selectedFiles = <<>>
    /\ form.editingId \in DOMAIN db

\* The records of a list with a given id.
WithId(list, id) == SelectSeq(list, LAMBDA m : m.id = id)

\* The write of an edit settles, resolved, while the list shows the record.
C22_EditWritten ==
    /\ SaveMemorySettles /\ save.pc = "db" /\ save.editing
    /\ dbRet'.outcome = "resolved"
    /\ WithId(memories, save.rec.id) # <<>>

\* The write of a new record settles, resolved.
C22_NewWritten ==
    /\ SaveMemorySettles /\ save.pc = "db" /\ ~save.editing
    /\ dbRet'.outcome = "resolved"

\* The record an edit was saved with: the id of the form, its date, images,
\* note and mood, and the age at that date.
C22_EditedAsInForm ==
    HandleSaveMemory /\ save'.pc = "db" /\ form.editingId # NoId =>
        /\ save'.rec.id = form.editingId
        /\ save'.rec.date = form.photoDate
        /\ save'.rec.images = form.selectedFiles
        /\ save'.rec.note = form.note
        /\ save'.rec.mood = form.selectedMood
        /\ save'.rec.calculatedAge = CalculateAge(profile.birthday, form.photoDate)

C22_EditStep ==
    /\ C22_EditedAsInForm
    /\ C22_EditWritten =>
        /\ save.rec.id \in DOMAIN db' /\ db'[save.rec.id] = save.rec
        /\ DOMAIN db' = DOMAIN db \cup {save.rec.id}
        /\ \A id \in DOMAIN db \ {save.rec.id} : db'[id] = db[id]
        /\ Len(memories') = Len(memories)
        /\ WithId(memories', save.rec.id) = <<save.rec>>
        /\ \A k \in 1..Len(memories) :
            memories'[k] = (IF memories[k].id = save.rec.id THEN save.rec ELSE memories[k])
    /\ C22_NewWritten =>
        /\ save.rec.id \notin DOMAIN db
        /\ db' = IDBPut(db, save.rec)
        /\ WithId(memories, save.rec.id) = <<>>
        /\ memories' = <<save.rec>> \o memories

C23_ListNewestFirst ==
    \A k \in 1..(Len(memories) - 1) :
        GetTime(memories[k].date) >= GetTime(memories[k + 1].date)

\* The url of an image that has none: the property is absent.
NoUrl == "undefined"

\* MemoryImage.url of an image of the form: lines 186-190 build the image of
\* id, base64 and mimeType, and line 295 pushes the url uploadImageToDrive
\* returned on the local array imageUrls, not on the image.
ImageUrl(image) == NoUrl

\* C24: once the sync of a saved record has succeeded, every image of that
\* record, in the store and in the displayed list, carries a remote url.
C24_SyncedImagesCarryUrls ==
    (SyncEnded /\ save.result = "synced") =>
        /\ save.rec.id \in DOMAIN db
        /\ \A k \in 1..Len(db[save.rec.id].images) :
               ImageUrl(db[save.rec.id].images[k]) # NoUrl
        /\ \A j \in 1..Len(memories) :
               memories[j].id = save.rec.id =>
                   \A k \in 1..Len(memories[j].images) :
                       ImageUrl(memories[j].images[k]) # NoUrl

\* C25: while no sign-in is in progress and the session is not authorized, the
\* API client holds no access token.
C25_NoTokenOutsideSession ==
    (si = SignInIdle /\ ~isAuthorized) => gapiToken = NoToken

\* Load i was started before a settings save: behind it a load of
\* handleSaveSettings (the only caller after the mount whose callback sets
\* isGoogleReady) is pending.
C26_StartedBeforeSave(i) ==
    \E j \in (i + 1)..Len(loads) : loads[j].onLoad = "setReady"

\* C26: the gapi.load callback of a load that was started before a settings
\* save never changes isGoogleReady; the gate becomes ready only through the
\* load the save started.
C26_StaleLoadLeavesGate ==
    [][\A i \in 1..Len(loads) :
          (GapiClientInit(i) /\ C26_StartedBeforeSave(i)) =>
              isGoogleReady' = isGoogleReady]_vars

\* C27: one startup's initData ends: isLoadingData becomes false, whatever
\* the settings parse, the migration's transaction and the database open do.
C27_InitDataEnds == <>(~isLoadingData)

\* C28: an analysis is started only for a form whose note is empty; when its
\* result arrives while the form holds a note (typed meanwhile, or that of
\* another record opened for edit meanwhile), the note and the mood of the
\* form stay as they are.
C28_ResultOnlyPrefills ==
    [][(\E p \in 1..Len(picks), result \in Analyses : AnalyzeReturns(p, result)) =>
          (form.note # "" =>
              /\ form'.note = form.note
              /\ form'.selectedMood = form.selectedMood)]_vars

\* C29: whenever no saveMemoryToDB and no deleteMemoryFromDB is pending, the
\* displayed list and the store hold the same records: every stored record is
\* in the list, and every record of the list is the one stored under its id.
C29_ListMatchesStore ==
    (save.pc # "db" /\ deletes = <<>>) =>
        /\ \A id \in DOMAIN db : \E k \in 1..Len(memories) : memories[k] = db[id]
        /\ \A k \in 1..Len(memories) :
               memories[k].id \in DOMAIN db /\ db[memories[k].id] = memories[k]

\* C30: a loadGoogleApi call that ends has invoked its onLoad: when the
\* callback of gapi.load ends a call by setting gapiInited while gisInited is
\* false (the one end that invokes nothing), the call has invoked its onLoad
\* before.
C30_LoadEndsInvoked ==
    [][\A i \in 1..Len(loads) :
          (GapiClientInit(i) /\ ~gapiInited /\ gapiInited' /\ ~gisInited) =>
              loads[i].called]_vars
====
